---- MODULE Spec2Model ----
(***************************************************************************)
(* A model of the peer-sync core of the beacon node:                       *)
(*   - the streaming Merkle hasher (tree_hash/src/merkle_stream.rs),       *)
(*   - the message processor (network/src/sync/message_processor.rs): the  *)
(*     status handshake classifier, the BlocksByRoot and BlocksByRange     *)
(*     servers, the relay of block responses to the sync manager, and the  *)
(*     gossip handlers with should_forward_block and                       *)
(*     should_forward_attestation,                                         *)
(*   - the event handlers (beacon_chain/src/events.rs): the head-change    *)
(*     queue of ServerSentEvents,                                          *)
(*   - the LevelDB store (store/src/leveldb_store.rs): do_atomically.      *)
(* Each component has its own specification; the variables of the other    *)
(* components stay at their initial values under it.                       *)
(***************************************************************************)
EXTENDS Integers, Sequences, FiniteSets, TLC

VARIABLES
    stream,     \* the MerkleStream: half_nodes, depth, next_leaf, root
    ctor,       \* how the stream was constructed: new(depth) or new_for_leaf_count(n)
    leaves,     \* the leaves handed to process_leaf so far, in call order
    res,        \* the Result of the last process_leaf call
    mpc,        \* position of the stream's user: "open", "finishing", "done", "panic"
    out,        \* the value returned by finish()
    head,       \* the chain's head: block root and the head state's fields
    block_roots,\* the canonical block root of every slot up to the head slot
    store,      \* the roots of the blocks held by the store
    store_ok,   \* whether store reads succeed
    clock,      \* the slot clock's reading, None when it fails
    net_send,   \* the channel to the network service
    net_open,   \* whether the network service still receives
    sync_send,  \* the channel to the sync manager
    sync_open,  \* whether the sync manager still receives
    sent_order, \* the processor's sends in order: the channel, or the warning of a failed send
    relayed,    \* the block responses handed to the processor, in call order
    panicked,   \* whether the handler's thread panicked
    ev,         \* the event the processor has handled
    head_changed_queue, \* ServerSentEvents' queue: its capacity and undelivered roots
    registered, \* the events handed to register, in call order, with what it logged
    delivered,  \* the roots the queue's receiver has taken, in order
    register_result, \* the Result of the last register call
    producer,   \* every producer thread's position in its register call
    sender_lock,\* the holder of the queue sender's mutex, None when free
    db,         \* the LevelDB database: the value under every key, None when absent
    db_before,  \* the database as the last writing operation found it
    batch,      \* the operations of the last do_atomically call
    db_result   \* the Result of the last writing operation

varsMerkle == <<stream, ctor, leaves, res, mpc, out>>

varsChain == <<head, block_roots, store, store_ok, clock>>

varsSync == <<net_send, net_open, sync_send, sync_open, sent_order, relayed, panicked, ev>>

varsEvents == <<head_changed_queue, registered, delivered, register_result,
                producer, sender_lock>>

varsDb == <<db, db_before, batch, db_result>>

vars == <<varsMerkle, varsChain, varsSync, varsEvents, varsDb>>

None == <<>>

Pow2(n) == 2 ^ n

(***************************************************************************)
(* Hash values.  A 32-byte value is a one-element tuple <<k>>; the SHA-256 *)
(* digest of left || right is the pair <<left, right>>, which is           *)
(* collision-free: two digests are equal only when both preimages are.     *)
(***************************************************************************)
Hash256_zero == <<0>>

Digest(left, right) == <<left, right>>

\* Tree depths the model constructs.
MaxDepth == 3

\* process_leaf calls made on one stream.
MaxCalls == 8

\* The leaf values supplied by callers; <<0>> is the all-zero leaf.
LeafValues == {<<0>>, <<1>>, <<2>>}

MaxLeafCount == Pow2(MaxDepth - 1)

(***************************************************************************)
(* HalfNode: the hasher context holds the left preimage it was fed.        *)
(***************************************************************************)
HalfNode_new(id, left) == [context |-> left, id |-> id]

HalfNode_finish(node, right) == Digest(node.context, right)

get_parent_bad(i) == i

get_parent(i) == i \div 2

RECURSIVE get_depth(_)
get_depth(i) == IF i <= 1 THEN 0 ELSE 1 + get_depth(i \div 2)

RECURSIVE next_power_of_two(_)
next_power_of_two(n) == IF n <= 1 THEN 1 ELSE 2 * next_power_of_two((n + 1) \div 2)

\* Z[0] = [0; 32], Z[k] = SHA256(Z[k-1] || Z[k-1])
RECURSIVE get_zero_hash(_)
get_zero_hash(k) ==
    IF k = 0 THEN Hash256_zero
    ELSE Digest(get_zero_hash(k - 1), get_zero_hash(k - 1))

new(depth) ==
    [half_nodes |-> <<>>,
     depth      |-> depth,
     next_leaf  |-> Pow2(depth - 1),
     root       |-> None]

new_for_leaf_count_bad(num_leaves) == new(get_depth(num_leaves) + 1)

new_for_leaf_count(num_leaves) ==
    new(get_depth(next_power_of_two(num_leaves)) + 1)

Last(s) == s[Len(s)]

Pop(s) == SubSeq(s, 1, Len(s) - 1)

\* A process_left_node that files the half-node under the node's own id.
process_left_node_bad(s, id, preimage) ==
    [s EXCEPT !.half_nodes = Append(@, HalfNode_new(id, preimage))]

process_left_node(s, id, preimage) ==
    [s EXCEPT !.half_nodes = Append(@, HalfNode_new(get_parent(id), preimage))]

\* A loop that never completes a half-node.
collapse_bad(s, parent, preimage) ==
    [s EXCEPT !.half_nodes = Append(@, HalfNode_new(parent, preimage))]

\* The loop of process_right_node, entered with the current `parent`.
RECURSIVE collapse(_, _, _)
collapse(s, parent, preimage) ==
    IF s.half_nodes # <<>> /\ Last(s.half_nodes).id = parent
    THEN LET digest == HalfNode_finish(Last(s.half_nodes), preimage)
             popped == [s EXCEPT !.half_nodes = Pop(@)]
         IN  IF parent = 1
             THEN [popped EXCEPT !.root = <<digest>>]
             ELSE collapse(popped, get_parent(parent), digest)
    ELSE [s EXCEPT !.half_nodes = Append(@, HalfNode_new(parent, preimage))]

process_right_node_bad(s, id, preimage) ==
    IF s.half_nodes # <<>> /\ Last(s.half_nodes).id = get_parent(id)
    THEN LET digest == HalfNode_finish(Last(s.half_nodes), preimage)
             popped == [s EXCEPT !.half_nodes = Pop(@)]
         IN  IF get_parent(id) = 1
             THEN [popped EXCEPT !.root = <<digest>>]
             ELSE [popped EXCEPT !.half_nodes =
                      Append(@, HalfNode_new(get_parent(get_parent(id)), digest))]
    ELSE [s EXCEPT !.half_nodes = Append(@, HalfNode_new(get_parent(id), preimage))]

process_right_node(s, id, preimage) == collapse(s, get_parent(id), preimage)

zero_hash_level_bad(s, id) == s.depth - (get_depth(id) + 2)

\* The level handed to get_zero_hash; usize arithmetic panics below zero.
zero_hash_level(s, id) == s.depth - (get_depth(id) + 1)

zero_hash(s, id) == get_zero_hash(zero_hash_level(s, id))

Ok == [ok |-> TRUE, max_leaves |-> 0]

MaximumLeavesExceeded(max_leaves) == [ok |-> FALSE, max_leaves |-> max_leaves]

process_leaf_bad(s, leaf) ==
    LET max_leaves == Pow2(s.depth + 1)
        bump(t) == [t EXCEPT !.next_leaf = @ + 1]
    IN  IF s.next_leaf >= max_leaves
        THEN [s |-> s, res |-> MaximumLeavesExceeded(max_leaves)]
        ELSE IF s.next_leaf = 1
        THEN [s |-> bump([s EXCEPT !.root = <<leaf>>]), res |-> Ok]
        ELSE IF s.next_leaf % 2 = 0
        THEN [s |-> bump(process_left_node(s, s.next_leaf, leaf)), res |-> Ok]
        ELSE [s |-> bump(process_right_node(s, s.next_leaf, leaf)), res |-> Ok]

\* process_leaf: the stream after the call and the Result it returns.
process_leaf(s, leaf) ==
    LET max_leaves == Pow2(s.depth + 1)
        bump(t) == [t EXCEPT !.next_leaf = @ + 1]
    IN  IF s.next_leaf > max_leaves
        THEN [s |-> s, res |-> MaximumLeavesExceeded(max_leaves)]
        ELSE IF s.next_leaf = 1
        THEN [s |-> bump([s EXCEPT !.root = <<leaf>>]), res |-> Ok]
        ELSE IF s.next_leaf % 2 = 0
        THEN [s |-> bump(process_left_node(s, s.next_leaf, leaf)), res |-> Ok]
        ELSE [s |-> bump(process_right_node(s, s.next_leaf, leaf)), res |-> Ok]

finish_iter_bad(s) ==
    IF s.root # None
    THEN [s |-> s, ret |-> <<Digest(s.root[1], Hash256_zero)>>, panic |-> FALSE]
    ELSE IF s.half_nodes # <<>>
    THEN LET right_child == Last(s.half_nodes).id * 2 + 1
         IN  [s |-> process_right_node(s, right_child, zero_hash(s, right_child)),
              ret |-> None, panic |-> FALSE]
    ELSE IF s.next_leaf = 1
    THEN [s |-> s, ret |-> <<get_zero_hash(1)>>, panic |-> FALSE]
    ELSE [s |-> process_left_node(s, s.next_leaf, zero_hash(s, s.next_leaf)),
          ret |-> None, panic |-> FALSE]

\* One iteration of finish()'s loop: the stream after it, and the value the
\* loop breaks with (None while it goes on).
finish_iter(s) ==
    IF s.root # None
    THEN [s |-> s, ret |-> s.root, panic |-> FALSE]
    ELSE IF s.half_nodes # <<>>
    THEN LET right_child == Last(s.half_nodes).id * 2 + 1
         IN  IF zero_hash_level(s, right_child) < 0
             THEN [s |-> s, ret |-> None, panic |-> TRUE]
             ELSE [s |-> process_right_node(s, right_child, zero_hash(s, right_child)),
                   ret |-> None, panic |-> FALSE]
    ELSE IF s.next_leaf = 1
    THEN [s |-> s, ret |-> <<Hash256_zero>>, panic |-> FALSE]
    ELSE IF zero_hash_level(s, s.next_leaf) < 0
    THEN [s |-> s, ret |-> None, panic |-> TRUE]
    ELSE [s |-> process_left_node(s, s.next_leaf, zero_hash(s, s.next_leaf)),
          ret |-> None, panic |-> FALSE]

\* finish() run to its return value (None when it panics).
RECURSIVE finish(_)
finish(s) ==
    LET r == finish_iter(s)
    IN  IF r.panic THEN None
        ELSE IF r.ret # None THEN r.ret
        ELSE finish(r.s)

\* The stream after process_leaf was called on every leaf of `ls` in order.
RECURSIVE process_leaves(_, _)
process_leaves(s, ls) ==
    IF ls = <<>> THEN s
    ELSE process_leaves(process_leaf(s, Head(ls)).s, Tail(ls))

(***************************************************************************)
(* The chain engine and the store, as the message processor reads them.    *)
(* A block root is the one-element tuple <<k>>; <<0>> is Hash256::zero().   *)
(***************************************************************************)
\* The highest slot the chain reaches.
MaxSlot == 3

SLOTS_PER_EPOCH == 2

FUTURE_SLOT_TOLERANCE == 1

Root(k) == <<k>>

LocalFork == "v0"

ForkVersions == {"v0", "v1"}

Peers == {"p1", "p2"}

RequestIds == {1, 2}

MaxEpoch == MaxSlot \div SLOTS_PER_EPOCH

\* A root no block of the local chain has.
ForeignRoot == Root(MaxSlot + 2)

start_slot(epoch) == epoch * SLOTS_PER_EPOCH

\* chain.slot(), with unwrap_or_else(|_| Slot::from(0))
slot_or_zero == IF clock = None THEN 0 ELSE clock[1]

\* chain.root_at_slot(slot): Some(root) for a slot of the canonical chain.
root_at_slot(slot) ==
    IF store_ok /\ slot + 1 <= Len(block_roots)
    THEN <<block_roots[slot + 1]>>
    ELSE None

\* chain.store.exists::<BeaconBlock>(root), with unwrap_or_else(|_| false)
store_exists_or_false(root) == store_ok /\ root \in store

\* slot.epoch(slots_per_epoch)
epoch_of(slot) == slot \div SLOTS_PER_EPOCH

\* The root of the state a block of `slot` leaves.
StateRoot(slot) == Digest(Hash256_zero, <<slot>>)

\* A BeaconBlock of the store; the block imported at slot s has the root
\* Root(s + 1).
BeaconBlock(slot) == [slot |-> slot, state_root |-> StateRoot(slot)]

signed_root(block) == Root(block.slot + 1)

\* block.as_ssz_bytes(): the block's encoding.
as_ssz_bytes(block) == <<"ssz", block.slot>>

\* chain.store.get::<BeaconBlock>(root) as `if let Ok(Some(block))` reads it:
\* the block, or None for a missing block and for a failed read.
store_get(root) ==
    IF store_ok /\ root \in store THEN <<BeaconBlock(root[1] - 1)>> ELSE None

\* chain.rev_iter_block_roots(): (root, slot) from the head slot down to
\* genesis; a skipped slot carries the root of the block before it.
rev_iter_block_roots ==
    [i \in 1..Len(block_roots) |->
        [root |-> block_roots[Len(block_roots) + 1 - i],
         slot |-> Len(block_roots) - i]]

InitChain ==
    /\ head = [beacon_block_root |-> Root(1),
               slot              |-> 0,
               fork_version      |-> LocalFork,
               finalized_root    |-> Hash256_zero,
               finalized_epoch   |-> 0]
    /\ block_roots = <<Root(1)>>
    /\ store = {Root(1)}
    /\ store_ok = TRUE
    /\ clock = <<0>>

(***************************************************************************)
(* Messages.  Every message of a channel is a record of the same shape;    *)
(* a field a variant does not carry holds the empty value.                 *)
(***************************************************************************)
NoStatus ==
    [fork_version    |-> "",
     finalized_root  |-> Hash256_zero,
     finalized_epoch |-> 0,
     head_root       |-> Hash256_zero,
     head_slot       |-> 0]

\* NetworkMessage::RPC(peer_id, RPCEvent::Request(id, RPCRequest::Goodbye(reason)))
GoodbyeRequest(peer, id, reason) ==
    [msg |-> "RPC", peer |-> peer, event |-> "Request", id |-> id,
     body |-> "Goodbye", reason |-> reason, status |-> NoStatus]

\* NetworkMessage::RPC(peer_id, RPCEvent::Response(id, Success(RPCResponse::Status(..))))
StatusResponse(peer, id, status) ==
    [msg |-> "RPC", peer |-> peer, event |-> "Response", id |-> id,
     body |-> "Status", reason |-> "", status |-> status]

\* NetworkMessage::RPC(peer_id, RPCEvent::Request(id, RPCRequest::Status(..)))
StatusRequestMessage(peer, id, status) ==
    [msg |-> "RPC", peer |-> peer, event |-> "Request", id |-> id,
     body |-> "Status", reason |-> "", status |-> status]

\* NetworkMessage::Disconnect { peer_id }
DisconnectMessage(peer) ==
    [msg |-> "Disconnect", peer |-> peer, event |-> "", id |-> 0,
     body |-> "", reason |-> "", status |-> NoStatus]

\* RPCEvent::Response(id, Success(RPCResponse::BlocksByRoot(bytes)))
BlocksByRootChunk(peer, id, bytes) ==
    [msg |-> "RPC", peer |-> peer, event |-> "Response", id |-> id,
     body |-> "BlocksByRoot", reason |-> "", status |-> NoStatus, bytes |-> bytes]

\* RPCEvent::Response(id, Success(RPCResponse::BlocksByRange(bytes)))
BlocksByRangeChunk(peer, id, bytes) ==
    [msg |-> "RPC", peer |-> peer, event |-> "Response", id |-> id,
     body |-> "BlocksByRange", reason |-> "", status |-> NoStatus, bytes |-> bytes]

\* RPCEvent::Response(id, RPCErrorResponse::StreamTermination(kind))
StreamTermination(peer, id, kind) ==
    [msg |-> "RPC", peer |-> peer, event |-> "Response", id |-> id,
     body |-> "StreamTermination", reason |-> "", status |-> NoStatus,
     bytes |-> <<>>, kind |-> kind]

\* SyncMessage::AddPeer(peer_id, PeerSyncInfo)
AddPeer(peer, info) == [msg |-> "AddPeer", peer |-> peer, info |-> info]

\* SyncMessage::BlocksByRangeResponse { peer_id, request_id, beacon_block }
BlocksByRangeResponse(peer, request_id, beacon_block) ==
    [msg |-> "BlocksByRangeResponse", peer |-> peer, request_id |-> request_id,
     beacon_block |-> beacon_block]

\* SyncMessage::BlocksByRootResponse { peer_id, request_id, beacon_block }
BlocksByRootResponse(peer, request_id, beacon_block) ==
    [msg |-> "BlocksByRootResponse", peer |-> peer, request_id |-> request_id,
     beacon_block |-> beacon_block]

\* SyncMessage::UnknownBlock(peer_id, block)
UnknownBlock(peer, block) ==
    [msg |-> "UnknownBlock", peer |-> peer, block |-> block]

\* SyncMessage::UnknownBlockHash(peer_id, root)
UnknownBlockHash(peer, root) ==
    [msg |-> "UnknownBlockHash", peer |-> peer, root |-> root]

\* The two channels as a handler leaves them.
Channels(net, sync) == [net |-> net, sync |-> sync, order |-> sent_order]

\* UnboundedSender::try_send: fails, and is only logged, once the receiver is gone.
try_send(queue, open, message) == IF open THEN Append(queue, message) ELSE queue

\* What a send leaves in the order of sends: the channel's name, or the
\* warning logged by unwrap_or_else when try_send fails.
sent_or_warned(order, open, channel, warning) ==
    Append(order, IF open THEN channel ELSE warning)

SyncWarning == "Could not send message to the sync service"

RpcWarning == "Could not send RPC message to the network service"

DisconnectWarning == "Could not send a Disconnect to the network service"

send_to_sync(ch, message) ==
    [ch EXCEPT !.sync = try_send(@, sync_open, message),
               !.order = sent_or_warned(@, sync_open, "sync", SyncWarning)]

\* A send_rpc_event whose failed send leaves no trace.
send_rpc_event_bad(ch, message) ==
    [ch EXCEPT !.net = try_send(@, net_open, message),
               !.order = try_send(@, net_open, "net")]

send_rpc_event(ch, message) ==
    [ch EXCEPT !.net = try_send(@, net_open, message),
               !.order = sent_or_warned(@, net_open, "net", RpcWarning)]

\* request_id.unwrap_or_else(|| 0)
send_rpc_request(ch, request_id, message_of_id) ==
    send_rpc_event(ch, message_of_id[IF request_id = None THEN 0 ELSE request_id[1]])

send_rpc_response(ch, message) == send_rpc_event(ch, message)

send_rpc_error_response(ch, message) == send_rpc_event(ch, message)

disconnect_bad(ch, peer, reason) ==
    LET said == send_rpc_request(ch, None,
                    [id \in {0} |-> GoodbyeRequest(peer, id, reason)])
        gone == send_rpc_event(said, DisconnectMessage(peer))
    IN  send_rpc_event(gone, DisconnectMessage(peer))

\* NetworkContext::disconnect: a Goodbye request, then NetworkMessage::Disconnect.
disconnect(ch, peer, reason) ==
    LET said == send_rpc_request(ch, None,
                    [id \in {0} |-> GoodbyeRequest(peer, id, reason)])
    IN  [said EXCEPT !.net = try_send(@, net_open, DisconnectMessage(peer)),
                     !.order = sent_or_warned(@, net_open, "net", DisconnectWarning)]

\* status_message: the head state is read from one head() call and the block
\* root from a second one.
status_message(state_head, root_head) ==
    [fork_version    |-> state_head.fork_version,
     finalized_root  |-> state_head.finalized_root,
     finalized_epoch |-> state_head.finalized_epoch,
     head_root       |-> root_head.beacon_block_root,
     head_slot       |-> state_head.slot]

\* PeerSyncInfo::from(StatusMessage)
PeerSyncInfo_from(status) ==
    [fork_version    |-> status.fork_version,
     finalized_root  |-> status.finalized_root,
     finalized_epoch |-> status.finalized_epoch,
     head_root       |-> status.head_root,
     head_slot       |-> status.head_slot]

fork_mismatch_bad(local, remote) == local.fork_version = remote.fork_version

\* local.fork_version != remote.fork_version
fork_mismatch(local, remote) == local.fork_version # remote.fork_version

head_too_far_ahead_bad(remote) ==
    remote.head_slot >= slot_or_zero + FUTURE_SLOT_TOLERANCE

\* remote.head_slot > chain.slot().unwrap_or_else(..) + FUTURE_SLOT_TOLERANCE
head_too_far_ahead(remote) ==
    remote.head_slot > slot_or_zero + FUTURE_SLOT_TOLERANCE

finalized_diverges_bad(local, remote) ==
    /\ remote.finalized_epoch < local.finalized_epoch
    /\ remote.finalized_root # Hash256_zero
    /\ local.finalized_root # Hash256_zero
    /\ root_at_slot(start_slot(remote.finalized_epoch)) # <<remote.finalized_root>>

\* The remote's finalized root is not the one of our chain.
finalized_diverges(local, remote) ==
    /\ remote.finalized_epoch <= local.finalized_epoch
    /\ remote.finalized_root # Hash256_zero
    /\ local.finalized_root # Hash256_zero
    /\ root_at_slot(start_slot(remote.finalized_epoch)) # <<remote.finalized_root>>

lower_finalized_epoch_bad(local, remote) ==
    remote.finalized_epoch > local.finalized_epoch

\* remote.finalized_epoch < local.finalized_epoch
lower_finalized_epoch(local, remote) ==
    remote.finalized_epoch < local.finalized_epoch

\* The branch of process_status taken for `remote` against `local`.
status_rule(local, remote) ==
    IF fork_mismatch(local, remote)
    THEN "network_id"
    ELSE IF head_too_far_ahead(remote)
    THEN "clock"
    ELSE IF finalized_diverges(local, remote)
    THEN "finalized_chain"
    ELSE IF lower_finalized_epoch(local, remote)
    THEN "NaivePeer"
    ELSE IF store_exists_or_false(remote.head_root)
    THEN "known_chain"
    ELSE "UsefulPeer"

\* What process_status sends once its rules have been evaluated: a disconnect
\* for the three rejections, nothing for a peer behind our finalized epoch, the
\* peer to the sync manager otherwise.
status_outcome(ch, peer, remote, rule) ==
    IF rule \in {"network_id", "clock", "finalized_chain"}
    THEN disconnect(ch, peer, "IrrelevantNetwork")
    ELSE IF rule = "NaivePeer"
    THEN ch
    ELSE send_to_sync(ch, AddPeer(peer, remote))

process_status_bad(ch, peer, status) ==
    LET remote == PeerSyncInfo_from(status)
        local  == PeerSyncInfo_from(status_message(head, head))
        rule   == status_rule(local, remote)
    IN  IF rule \in {"network_id", "clock", "finalized_chain"}
        THEN disconnect(ch, peer, "IrrelevantNetwork")
        ELSE IF rule \in {"NaivePeer", "known_chain"}
        THEN ch
        ELSE send_to_sync(ch, AddPeer(peer, remote))

process_status(ch, peer, status) ==
    LET remote == PeerSyncInfo_from(status)
        local  == PeerSyncInfo_from(status_message(head, head))
    IN  status_outcome(ch, peer, remote, status_rule(local, remote))

\* on_connect: a Status request with our snapshot, request id None.
on_connect(ch, peer) ==
    send_rpc_request(ch, None,
        [id \in {0} |-> StatusRequestMessage(peer, id, status_message(head, head))])

on_status_request_bad(ch, peer, request_id, status) ==
    send_rpc_response(process_status(ch, peer, status),
        StatusResponse(peer, request_id, status_message(head, head)))

on_status_request(ch, peer, request_id, status) ==
    process_status(
        send_rpc_response(ch,
            StatusResponse(peer, request_id, status_message(head, head))),
        peer, status)

on_status_response(ch, peer, status) == process_status(ch, peer, status)

\* The loop of on_blocks_by_root_request over request.block_roots.
RECURSIVE send_found_blocks(_, _, _, _)
send_found_blocks(ch, peer, request_id, roots) ==
    IF roots = <<>> THEN ch
    ELSE LET found == store_get(Head(roots))
             sent  == IF found # None
                      THEN send_rpc_response(ch,
                               BlocksByRootChunk(peer, request_id,
                                                 as_ssz_bytes(found[1])))
                      ELSE ch
         IN  send_found_blocks(sent, peer, request_id, Tail(roots))

RECURSIVE send_found_blocks_bad(_, _, _, _)
send_found_blocks_bad(ch, peer, request_id, roots) ==
    IF roots = <<>> THEN ch
    ELSE LET found == store_get(Head(roots))
         IN  IF found # None
             THEN send_found_blocks_bad(
                      send_rpc_response(ch,
                          BlocksByRootChunk(peer, request_id,
                                            as_ssz_bytes(found[1]))),
                      peer, request_id, Tail(roots))
             ELSE ch

on_blocks_by_root_request_bad(ch, peer, request_id, roots) ==
    send_rpc_error_response(
        send_found_blocks_bad(ch, peer, request_id, roots),
        StreamTermination(peer, request_id, "BlocksByRoot"))

on_blocks_by_root_request(ch, peer, request_id, roots) ==
    send_rpc_error_response(
        send_found_blocks(ch, peer, request_id, roots),
        StreamTermination(peer, request_id, "BlocksByRoot"))

\* The width in bits of a slot and of a count (64 in the code).
SlotWidth == 3

SlotModulus == Pow2(SlotWidth)

\* a + b on unsigned integers of SlotWidth bits: None is the panic of a build
\* with overflow checks, the wrapped sum is what a build without them yields.
checked_or_wrapping_add(a, b, overflow_checks) ==
    IF a + b < SlotModulus THEN <<a + b>>
    ELSE IF overflow_checks THEN None
    ELSE <<(a + b) % SlotModulus>>

Reverse(seq) == [i \in 1..Len(seq) |-> seq[Len(seq) + 1 - i]]

\* Vec::dedup_by_key(|b| b.slot): of consecutive blocks of one slot the first stays.
RECURSIVE dedup_by_slot(_)
dedup_by_slot(blocks) ==
    IF Len(blocks) <= 1 THEN blocks
    ELSE LET rest == dedup_by_slot(Tail(blocks))
         IN  IF blocks[1].slot = rest[1].slot
             THEN <<blocks[1]>> \o Tail(rest)
             ELSE <<blocks[1]>> \o rest

\* Iterator::take_while(|(_, slot)| start_slot <= slot)
RECURSIVE take_while_from(_, _)
take_while_from(entries, req_start_slot) ==
    IF entries = <<>> \/ ~(req_start_slot <= Head(entries).slot) THEN <<>>
    ELSE <<Head(entries)>> \o take_while_from(Tail(entries), req_start_slot)

\* The closure of the first filter: start_slot <= slot && start_slot + count > slot
in_requested_range(req, slot, overflow_checks) ==
    /\ req.start_slot <= slot
    /\ LET sum == checked_or_wrapping_add(req.start_slot, req.count, overflow_checks)
       IN  sum # None /\ sum[1] > slot

\* Whether evaluating the first filter panics: the sum is only computed for an
\* entry with start_slot <= slot.
range_filter_panics(req, overflow_checks) ==
    \E i \in 1..Len(rev_iter_block_roots) :
        /\ req.start_slot <= rev_iter_block_roots[i].slot
        /\ checked_or_wrapping_add(req.start_slot, req.count, overflow_checks) = None

\* Iterator::filter_map over the store reads.
RECURSIVE filter_map_store_get(_)
filter_map_store_get(entries) ==
    IF entries = <<>> THEN <<>>
    ELSE store_get(Head(entries).root) \o filter_map_store_get(Tail(entries))

\* The blocks on_blocks_by_range_request collects, reverses and dedups.
collect_blocks(req, overflow_checks) ==
    LET in_range == SelectSeq(rev_iter_block_roots,
                        LAMBDA e : in_requested_range(req, e.slot, overflow_checks))
        taken    == take_while_from(in_range, req.start_slot)
        read     == filter_map_store_get(taken)
        kept     == SelectSeq(read, LAMBDA block : block.slot >= req.start_slot)
    IN  dedup_by_slot(Reverse(kept))

RECURSIVE send_blocks(_, _, _, _)
send_blocks(ch, peer, request_id, blocks) ==
    IF blocks = <<>> THEN ch
    ELSE send_blocks(
             send_rpc_response(ch,
                 BlocksByRangeChunk(peer, request_id, as_ssz_bytes(Head(blocks)))),
             peer, request_id, Tail(blocks))

\* The handler's channels and whether it panicked.
on_blocks_by_range_request(ch, peer, request_id, req, overflow_checks) ==
    IF range_filter_panics(req, overflow_checks)
    THEN [ch |-> ch, panic |-> TRUE]
    ELSE [ch |-> send_rpc_error_response(
                     send_blocks(ch, peer, request_id,
                                 collect_blocks(req, overflow_checks)),
                     StreamTermination(peer, request_id, "BlocksByRange")),
          panic |-> FALSE]

on_blocks_by_range_response_bad(ch, peer, request_id, beacon_block) ==
    IF beacon_block = None THEN ch
    ELSE send_to_sync(ch, BlocksByRangeResponse(peer, request_id, beacon_block))

on_blocks_by_range_response(ch, peer, request_id, beacon_block) ==
    send_to_sync(ch, BlocksByRangeResponse(peer, request_id, beacon_block))

on_blocks_by_root_response(ch, peer, request_id, beacon_block) ==
    send_to_sync(ch, BlocksByRootResponse(peer, request_id, beacon_block))

\* The public keys of the validator registry, and one outside it.
Validators == {"k1", "k2"}

Signers == Validators \cup {"k0"}

\* spec.get_domain(epoch, Domain::BeaconProposer, &state.fork)
get_domain(epoch, fork) == [epoch |-> epoch, domain |-> "BeaconProposer", fork |-> fork]

\* A BLS signature by `key` over `message` under `domain`.
Signature(key, message, domain) == [key |-> key, message |-> message, domain |-> domain]

\* SignatureSet::single(signature, pubkey, message, domain).is_valid()
is_valid(signature, pubkey, message, domain) ==
    signature = Signature(pubkey, message, domain)

\* A block received over gossip.
GossipBlock(slot, parent_root, signature) ==
    [slot |-> slot, parent_root |-> parent_root, state_root |-> StateRoot(slot),
     signature |-> signature]

GossipBlocks ==
    {GossipBlock(slot, parent_root,
                 Signature(key, Root(slot + 1), get_domain(epoch_of(slot), LocalFork))) :
        slot \in 0..MaxSlot, parent_root \in {Root(1), Root(2), ForeignRoot},
        key \in Signers}

\* head().beacon_state_root and head().beacon_state
beacon_state_root(chain_head) == StateRoot(chain_head.slot)

beacon_state(chain_head) == [slot |-> chain_head.slot, fork |-> chain_head.fork_version]

\* chain.store.get_state(state_root, Some(slot)) as `Ok(Some(state))` reads it.
get_state(state_root, state_in_store) ==
    IF store_ok /\ state_in_store
    THEN <<[slot |-> state_root[2][1], fork |-> LocalFork]>>
    ELSE None

\* What the chain and the state-processing functions answer within one call of
\* should_forward_block.
ProposerResults ==
    {[ok |-> FALSE, validator |-> None], [ok |-> TRUE, validator |-> None]}
        \cup {[ok |-> TRUE, validator |-> <<key>>] : key \in Validators}

ForwardingAnswers ==
    [state_in_store     : BOOLEAN,
     per_slot_ok        : BOOLEAN,
     committee_cache_ok : BOOLEAN,
     proposer           : ProposerResults]

\* Lines 485-509: the parent block and the state to check the signature with;
\* head() is called once for the comparison and once for the clone.
parent_block_opt(block, head_compared, head_cloned, answers) ==
    LET parent == store_get(block.parent_root)
    IN  IF parent = None THEN None
        ELSE LET state_res ==
                     IF beacon_state_root(head_compared) = parent[1].state_root
                     THEN <<beacon_state(head_cloned)>>
                     ELSE get_state(parent[1].state_root, answers.state_in_store)
             IN  IF state_res = None THEN None
                 ELSE <<[parent_block |-> parent[1], state |-> state_res[1]]>>

\* for _ in state.slot..block.slot { per_slot_processing(&mut state) }: None
\* when a step fails.
RECURSIVE fast_forward(_, _, _)
fast_forward(state, to_slot, per_slot_ok) ==
    IF state.slot >= to_slot THEN <<state>>
    ELSE IF ~per_slot_ok THEN None
    ELSE fast_forward([state EXCEPT !.slot = @ + 1], to_slot, per_slot_ok)

signing_state_bad(block, found, answers) ==
    IF epoch_of(block.slot) + 1 > epoch_of(found.parent_block.slot)
    THEN fast_forward(found.state, block.slot, answers.per_slot_ok)
    ELSE <<found.state>>

\* Lines 513-535: the state the proposer is computed from, None for `return false`.
signing_state(block, found, answers) ==
    IF epoch_of(block.slot) + 1 > epoch_of(found.parent_block.slot)
    THEN LET advanced == fast_forward(found.state, block.slot, answers.per_slot_ok)
         IN  IF advanced = None \/ ~answers.committee_cache_ok THEN None
             ELSE advanced
    ELSE <<found.state>>

\* The boolean should_forward_block returns, and the signature check it made.
should_forward_block(block, head_compared, head_cloned, answers) ==
    LET found == parent_block_opt(block, head_compared, head_cloned, answers)
        state == IF found = None THEN None
                 ELSE signing_state(block, found[1], answers)
    IN  IF state = None \/ ~answers.proposer.ok \/ answers.proposer.validator = None
        THEN [forward |-> FALSE, checked |-> None]
        ELSE LET pubkey == answers.proposer.validator[1]
                 domain == get_domain(epoch_of(block.slot), state[1].fork)
             IN  [forward |-> is_valid(block.signature, pubkey,
                                       signed_root(block), domain),
                  checked |-> <<[state_slot |-> state[1].slot,
                                 pubkey     |-> pubkey,
                                 message    |-> signed_root(block),
                                 domain     |-> domain]>>]

\* A gossiped attestation: the block root its data names.
Attestations == {[beacon_block_root |-> r] : r \in {Root(1), Root(2), ForeignRoot}}

\* How one signature check of should_forward_attestation ends:
\* get_indexed_attestation fails, indexed_attestation_signature_set fails, or
\* the signature set is invalid or valid.
SignatureChecks == {"conversion_error", "signature_set_error", "invalid", "valid"}

AttestationAnswers ==
    [head_check     : SignatureChecks,
     state_in_store : BOOLEAN,
     state_check    : SignatureChecks]

\* Lines 638-663: the check against the state of the attested block.
slow_path(attestation, answers) ==
    LET block == store_get(attestation.beacon_block_root)
        state == IF block = None THEN None
                 ELSE get_state(block[1].state_root, answers.state_in_store)
    IN  state # None /\ answers.state_check = "valid"

should_forward_attestation_bad(attestation, answers) ==
    IF answers.head_check = "valid"
    THEN [forward |-> TRUE, slow_path_tried |-> FALSE]
    ELSE IF answers.head_check = "invalid"
    THEN [forward |-> FALSE, slow_path_tried |-> FALSE]
    ELSE [forward |-> slow_path(attestation, answers), slow_path_tried |-> TRUE]

\* The boolean should_forward_attestation returns, and whether it went on to
\* read the attested block from the store.
should_forward_attestation(attestation, answers) ==
    IF answers.head_check = "valid"
    THEN [forward |-> TRUE, slow_path_tried |-> FALSE]
    ELSE [forward |-> slow_path(attestation, answers), slow_path_tried |-> TRUE]

\* What chain.process_block returns: Ok(outcome) or Err(BeaconChainError).
BlockProcessingOutcomes ==
    {"Processed", "ParentUnknown", "FutureSlot", "StateRootMismatch",
     "BlockIsAlreadyKnown", "PerBlockProcessingError"}

ProcessBlockResults ==
    {[ok |-> TRUE, outcome |-> o] : o \in BlockProcessingOutcomes}
        \cup {[ok |-> FALSE, outcome |-> "BeaconChainError"]}

on_block_gossip_bad(ch, peer, block, processed) ==
    IF processed.ok /\ processed.outcome \notin {"Processed", "ParentUnknown"}
    THEN send_to_sync(ch, UnknownBlock(peer, block))
    ELSE ch

on_block_gossip(ch, peer, block, processed) ==
    IF processed.ok /\ processed.outcome = "ParentUnknown"
    THEN send_to_sync(ch, UnknownBlock(peer, block))
    ELSE ch

\* What chain.process_attestation returns; UnknownHeadBlock carries a root.
AttestationProcessingOutcomes ==
    {"Processed", "UnknownHeadBlock", "AttestsToFutureState", "FinalizedSlot",
     "Invalid", "EmptyAggregationBitfield"}

ProcessAttestationResults ==
    {[ok |-> TRUE, outcome |-> o, beacon_block_root |-> Hash256_zero] :
        o \in AttestationProcessingOutcomes \ {"UnknownHeadBlock"}}
        \cup {[ok |-> TRUE, outcome |-> "UnknownHeadBlock", beacon_block_root |-> r] :
                 r \in {Root(2), ForeignRoot}}
        \cup {[ok |-> FALSE, outcome |-> "BeaconChainError",
               beacon_block_root |-> Hash256_zero]}

on_attestation_gossip_bad(ch, peer, processed) ==
    IF ~processed.ok THEN disconnect(ch, peer, "Fault")
    ELSE IF processed.outcome = "UnknownHeadBlock"
    THEN send_to_sync(ch, UnknownBlockHash(peer, processed.beacon_block_root))
    ELSE IF processed.outcome \in {"Invalid", "EmptyAggregationBitfield"}
    THEN disconnect(ch, peer, "Fault")
    ELSE ch

on_attestation_gossip(ch, peer, processed) ==
    IF ~processed.ok THEN ch
    ELSE IF processed.outcome = "UnknownHeadBlock"
    THEN send_to_sync(ch, UnknownBlockHash(peer, processed.beacon_block_root))
    ELSE IF processed.outcome \in {"Invalid", "EmptyAggregationBitfield"}
    THEN disconnect(ch, peer, "Fault")
    ELSE ch

(***************************************************************************)
(* The processor as a state machine: the chain advances, then the network  *)
(* delivers one event, which the processor handles.                        *)
(***************************************************************************)
NoEvent == [op |-> "", peer |-> "", request_id |-> 0, status |-> NoStatus]

InitSync ==
    /\ net_send = <<>>
    /\ net_open = TRUE
    /\ sync_send = <<>>
    /\ sync_open = TRUE
    /\ sent_order = <<>>
    /\ relayed = <<>>
    /\ panicked = FALSE
    /\ ev = NoEvent

\* The status messages peers send.
RemoteRoots == {Hash256_zero, Root(1), Root(SLOTS_PER_EPOCH + 1), ForeignRoot}

RemoteHeadRoots == {Root(1), ForeignRoot}

StatusMessages ==
    [fork_version    : ForkVersions,
     finalized_root  : RemoteRoots,
     finalized_epoch : 0..(MaxEpoch + 1),
     head_root       : RemoteHeadRoots,
     head_slot       : 0..(MaxSlot + 2)]

\* The chain imports a block `skipped` slots after the slot following its head.
ImportBlock(skipped) ==
    /\ ev = NoEvent
    /\ head.slot + skipped + 1 <= MaxSlot
    /\ LET slot == head.slot + skipped + 1
           root == Root(slot + 1)
       IN  /\ block_roots' = block_roots
                  \o [i \in 1..skipped |-> head.beacon_block_root] \o <<root>>
           /\ store' = store \cup {root}
           /\ head' = [head EXCEPT !.beacon_block_root = root, !.slot = slot]
    /\ UNCHANGED <<store_ok, clock, varsSync, varsMerkle, varsEvents, varsDb>>

\* The chain finalizes the checkpoint of a later epoch it has reached.
Finalize(epoch) ==
    /\ ev = NoEvent
    /\ epoch > head.finalized_epoch
    /\ start_slot(epoch) <= head.slot
    /\ head' = [head EXCEPT !.finalized_epoch = epoch,
                            !.finalized_root = block_roots[start_slot(epoch) + 1]]
    /\ UNCHANGED <<block_roots, store, store_ok, clock, varsSync, varsMerkle, varsEvents, varsDb>>

\* The slot clock is read at another slot, or fails to be read.
ClockReads(reading) ==
    /\ ev = NoEvent
    /\ clock # reading
    /\ clock' = reading
    /\ UNCHANGED <<head, block_roots, store, store_ok, varsSync, varsMerkle, varsEvents, varsDb>>

\* The store starts to fail its reads.
StoreFails ==
    /\ ev = NoEvent
    /\ store_ok
    /\ store_ok' = FALSE
    /\ UNCHANGED <<head, block_roots, store, clock, varsSync, varsMerkle, varsEvents, varsDb>>

\* on_connect is called for a newly dialed peer.
Connect ==
    /\ ev = NoEvent
    /\ \E peer \in Peers :
          /\ ev' = [op |-> "on_connect", peer |-> peer,
                    request_id |-> 0, status |-> NoStatus]
          /\ LET ch == on_connect(Channels(net_send, sync_send), peer)
             IN  /\ net_send' = ch.net
                 /\ sync_send' = ch.sync
                 /\ sent_order' = ch.order
    /\ UNCHANGED <<net_open, sync_open, relayed, panicked, varsChain, varsMerkle, varsEvents, varsDb>>

\* on_status_request is called with a peer's Status request.
StatusRequest ==
    /\ ev = NoEvent
    /\ \E peer \in Peers, request_id \in RequestIds, status \in StatusMessages :
          /\ ev' = [op |-> "on_status_request", peer |-> peer,
                    request_id |-> request_id, status |-> status]
          /\ LET ch == on_status_request(Channels(net_send, sync_send),
                                         peer, request_id, status)
             IN  /\ net_send' = ch.net
                 /\ sync_send' = ch.sync
                 /\ sent_order' = ch.order
    /\ UNCHANGED <<net_open, sync_open, relayed, panicked, varsChain, varsMerkle, varsEvents, varsDb>>

\* on_status_response is called with a peer's Status response.
StatusResponseReceived ==
    /\ ev = NoEvent
    /\ \E peer \in Peers, status \in StatusMessages :
          /\ ev' = [op |-> "on_status_response", peer |-> peer,
                    request_id |-> 0, status |-> status]
          /\ LET ch == on_status_response(Channels(net_send, sync_send),
                                          peer, status)
             IN  /\ net_send' = ch.net
                 /\ sync_send' = ch.sync
                 /\ sent_order' = ch.order
    /\ UNCHANGED <<net_open, sync_open, relayed, panicked, varsChain, varsMerkle, varsEvents, varsDb>>

\* The store no longer holds the block of `root`.
StoreLoses(root) ==
    /\ ev = NoEvent
    /\ root \in store
    /\ store' = store \ {root}
    /\ UNCHANGED <<head, block_roots, store_ok, clock, varsSync, varsMerkle, varsEvents, varsDb>>

\* The roots a BlocksByRoot request names.
MaxRoots == 3

ChainRoots == {Root(k) : k \in 1..(MaxSlot + 1)}

RequestedRoots == {Root(1), Root(2), Root(MaxSlot + 1), ForeignRoot}

BlockRootsRequests ==
    UNION {[1..n -> RequestedRoots] : n \in 0..MaxRoots}

\* on_blocks_by_root_request is called with a peer's BlocksByRoot request.
BlocksByRootRequest ==
    /\ ev = NoEvent
    /\ \E peer \in Peers, request_id \in RequestIds, roots \in BlockRootsRequests :
          /\ ev' = [op |-> "on_blocks_by_root_request", peer |-> peer,
                    request_id |-> request_id, block_roots |-> roots]
          /\ LET ch == on_blocks_by_root_request(Channels(net_send, sync_send),
                                                 peer, request_id, roots)
             IN  /\ net_send' = ch.net
                 /\ sync_send' = ch.sync
                 /\ sent_order' = ch.order
    /\ UNCHANGED <<net_open, sync_open, relayed, panicked, varsChain, varsMerkle, varsEvents, varsDb>>

\* on_blocks_by_range_request is called with a peer's BlocksByRange request,
\* in a build with or without overflow checks.
BlocksByRangeRequest ==
    /\ ev = NoEvent
    /\ \E peer \in Peers, request_id \in RequestIds,
          req_start_slot \in 0..(SlotModulus - 1), req_count \in 0..(SlotModulus - 1),
          overflow_checks \in BOOLEAN :
          /\ ev' = [op |-> "on_blocks_by_range_request", peer |-> peer,
                    request_id |-> request_id, start_slot |-> req_start_slot,
                    count |-> req_count, overflow_checks |-> overflow_checks]
          /\ LET done == on_blocks_by_range_request(
                             Channels(net_send, sync_send), peer, request_id,
                             [start_slot |-> req_start_slot, count |-> req_count],
                             overflow_checks)
             IN  /\ net_send' = done.ch.net
                 /\ sync_send' = done.ch.sync
                 /\ sent_order' = done.ch.order
                 /\ panicked' = done.panic
    /\ UNCHANGED <<net_open, sync_open, relayed, varsChain, varsMerkle, varsEvents, varsDb>>

\* Block responses handed to the processor in one run.
MaxRelayed == 3

\* The Option<BeaconBlock> of a response chunk: None ends the stream.
ResponseBlocks == {None} \cup {<<BeaconBlock(slot)>> : slot \in 0..1}

\* on_blocks_by_range_response is called with a chunk of a peer's response.
BlocksByRangeResponseReceived ==
    /\ Len(relayed) < MaxRelayed
    /\ \E peer \in Peers, request_id \in RequestIds, beacon_block \in ResponseBlocks :
          LET call == [op |-> "on_blocks_by_range_response", peer |-> peer,
                       request_id |-> request_id, beacon_block |-> beacon_block]
              ch   == on_blocks_by_range_response(Channels(net_send, sync_send),
                                                  peer, request_id, beacon_block)
          IN  /\ ev' = call
              /\ relayed' = Append(relayed, call)
              /\ net_send' = ch.net
              /\ sync_send' = ch.sync
              /\ sent_order' = ch.order
    /\ UNCHANGED <<net_open, sync_open, panicked, varsChain, varsMerkle, varsEvents, varsDb>>

\* on_blocks_by_root_response is called with a chunk of a peer's response.
BlocksByRootResponseReceived ==
    /\ Len(relayed) < MaxRelayed
    /\ \E peer \in Peers, request_id \in RequestIds, beacon_block \in ResponseBlocks :
          LET call == [op |-> "on_blocks_by_root_response", peer |-> peer,
                       request_id |-> request_id, beacon_block |-> beacon_block]
              ch   == on_blocks_by_root_response(Channels(net_send, sync_send),
                                                 peer, request_id, beacon_block)
          IN  /\ ev' = call
              /\ relayed' = Append(relayed, call)
              /\ net_send' = ch.net
              /\ sync_send' = ch.sync
              /\ sent_order' = ch.order
    /\ UNCHANGED <<net_open, sync_open, panicked, varsChain, varsMerkle, varsEvents, varsDb>>

\* on_block_gossip is called with a gossiped block; the chain engine answers.
BlockGossip ==
    /\ ev = NoEvent
    /\ \E peer \in Peers, block \in GossipBlocks, processed \in ProcessBlockResults :
          /\ ev' = [op |-> "on_block_gossip", peer |-> peer, block |-> block,
                    processed |-> processed]
          /\ LET ch == on_block_gossip(Channels(net_send, sync_send),
                                       peer, block, processed)
             IN  /\ net_send' = ch.net
                 /\ sync_send' = ch.sync
                 /\ sent_order' = ch.order
    /\ UNCHANGED <<net_open, sync_open, relayed, panicked, varsChain, varsMerkle, varsEvents, varsDb>>

\* on_attestation_gossip is called with a gossiped attestation; the chain
\* engine answers.
AttestationGossip ==
    /\ ev = NoEvent
    /\ \E peer \in Peers, processed \in ProcessAttestationResults :
          /\ ev' = [op |-> "on_attestation_gossip", peer |-> peer,
                    processed |-> processed]
          /\ LET ch == on_attestation_gossip(Channels(net_send, sync_send),
                                             peer, processed)
             IN  /\ net_send' = ch.net
                 /\ sync_send' = ch.sync
                 /\ sent_order' = ch.order
    /\ UNCHANGED <<net_open, sync_open, relayed, panicked, varsChain, varsMerkle, varsEvents, varsDb>>

\* should_forward_block is called for a gossiped block.
ShouldForwardBlock ==
    /\ ev = NoEvent
    /\ \E block \in GossipBlocks, answers \in ForwardingAnswers :
          LET returned == should_forward_block(block, head, head, answers)
          IN  ev' = [op |-> "should_forward_block", block |-> block,
                     answers |-> answers, forward |-> returned.forward,
                     checked |-> returned.checked]
    /\ UNCHANGED <<net_send, net_open, sync_send, sync_open, sent_order, relayed,
                   panicked, varsChain, varsMerkle, varsEvents, varsDb>>

\* should_forward_attestation is called for a gossiped attestation.
ShouldForwardAttestation ==
    /\ ev = NoEvent
    /\ \E attestation \in Attestations, answers \in AttestationAnswers :
          LET returned == should_forward_attestation(attestation, answers)
          IN  ev' = [op |-> "should_forward_attestation",
                     attestation |-> attestation, answers |-> answers,
                     forward |-> returned.forward,
                     slow_path_tried |-> returned.slow_path_tried]
    /\ UNCHANGED <<net_send, net_open, sync_send, sync_open, sent_order, relayed,
                   panicked, varsChain, varsMerkle, varsEvents, varsDb>>

\* The sync manager drops its end of the channel.
SyncManagerStops ==
    /\ ev = NoEvent
    /\ sync_open
    /\ sync_open' = FALSE
    /\ UNCHANGED <<net_send, net_open, sync_send, sent_order, relayed, panicked, ev,
                   varsChain, varsMerkle, varsEvents, varsDb>>

\* The network service drops its end of the channel.
NetworkServiceStops ==
    /\ ev = NoEvent
    /\ net_open
    /\ net_open' = FALSE
    /\ UNCHANGED <<net_send, sync_send, sync_open, sent_order, relayed, panicked, ev,
                   varsChain, varsMerkle, varsEvents, varsDb>>

NextSync ==
    \/ \E skipped \in 0..1 : ImportBlock(skipped)
    \/ \E epoch \in 1..MaxEpoch : Finalize(epoch)
    \/ \E reading \in {None} \cup {<<s>> : s \in 0..MaxSlot} : ClockReads(reading)
    \/ StoreFails
    \/ Connect
    \/ StatusRequest
    \/ StatusResponseReceived

(***************************************************************************)
(* The event handlers (beacon_chain/src/events.rs).  ServerSentEvents      *)
(* feeds the roots of head changes into a bounded queue whose receiver is  *)
(* handed to the HTTP server.                                              *)
(***************************************************************************)
\* The EventKind values the chain registers.
HeadChanges ==
    [event : {"beacon_head_changed"},
     reorg : {FALSE},
     current_head_beacon_block_root : {Root(1), Root(2)},
     previous_head_beacon_block_root : {Hash256_zero}]

OtherEvents ==
    [event : {"beacon_finalization", "beacon_block_imported", "beacon_block_rejected",
              "beacon_attestation_imported", "beacon_attestation_rejected"},
     block_root : {Root(1)}]

EventKinds == HeadChanges \cup OtherEvents

\* SignedBeaconBlockHash::from(Hash256)
SignedBeaconBlockHash(root) == [signed_beacon_block_hash |-> root]

\* multiqueue::mpmc_fut_queue(capacity): an empty queue of that capacity.
mpmc_fut_queue(capacity) == [capacity |-> capacity, items |-> <<>>]

\* MPMCFutSender::try_send: the item joins the tail unless the queue is full.
queue_try_send(queue, item) ==
    IF Len(queue.items) < queue.capacity
    THEN [queue |-> [queue EXCEPT !.items = Append(@, item)], ok |-> TRUE]
    ELSE [queue |-> queue, ok |-> FALSE]

\* The receiver's poll: the item at the head leaves the queue.
queue_recv(queue) == [queue EXCEPT !.items = Tail(@)]

ServerSentEvents_new_bad == mpmc_fut_queue(SLOTS_PER_EPOCH + 1)

\* ServerSentEvents::new
ServerSentEvents_new == mpmc_fut_queue(SLOTS_PER_EPOCH)

RegisterOk == [ok |-> TRUE]

\* The root of the head that was replaced, as a queue item.
head_change_item_bad(kind) == SignedBeaconBlockHash(kind.previous_head_beacon_block_root)

\* The queue item of a BeaconHeadChanged event: the pattern binds
\* current_head_beacon_block_root, which is converted for the queue.
head_change_item(kind) == SignedBeaconBlockHash(kind.current_head_beacon_block_root)

\* A register that makes room by discarding the oldest undelivered root.
register_bad(queue, kind) ==
    IF kind.event = "beacon_head_changed"
    THEN LET item == head_change_item(kind)
             sent == queue_try_send(queue, item)
         IN  IF sent.ok
             THEN [queue |-> sent.queue, logged |-> FALSE, result |-> RegisterOk]
             ELSE [queue |-> queue_try_send(queue_recv(queue), item).queue,
                   logged |-> TRUE, result |-> RegisterOk]
    ELSE [queue |-> queue, logged |-> FALSE, result |-> RegisterOk]

\* ServerSentEvents::register: the queue afterwards, whether "Head change
\* streaming queue full; dropping change" was logged, and the Result.
register(queue, kind) ==
    IF kind.event = "beacon_head_changed"
    THEN LET sent == queue_try_send(queue, head_change_item(kind))
         IN  [queue |-> sent.queue, logged |-> ~sent.ok, result |-> RegisterOk]
    ELSE [queue |-> queue, logged |-> FALSE, result |-> RegisterOk]

\* The threads that hand events to the one ServerSentEvents.
Producers == {"t1", "t2"}

NoKind == [event |-> ""]

IdleProducer == [pc |-> "idle", kind |-> NoKind, result |-> RegisterOk]

takes_lock_bad(kind) == TRUE

\* The arm of the match that locks the sender: BeaconHeadChanged alone.
takes_lock(kind) == kind.event = "beacon_head_changed"

guard_drop_bad(lock) == lock

\* The MutexGuard goes out of scope when the arm ends: the mutex is free.
guard_drop(lock) == None

InitEvents ==
    /\ head_changed_queue = ServerSentEvents_new
    /\ registered = <<>>
    /\ delivered = <<>>
    /\ register_result = RegisterOk
    /\ producer = [p \in Producers |-> IdleProducer]
    /\ sender_lock = None

\* The number of register calls the model follows.
MaxRegistered == SLOTS_PER_EPOCH + 2

Register ==
    /\ Len(registered) < MaxRegistered
    /\ \E kind \in EventKinds :
          LET r == register(head_changed_queue, kind)
          IN  /\ head_changed_queue' = r.queue
              /\ registered' = Append(registered, [kind |-> kind, logged |-> r.logged])
              /\ register_result' = r.result
    /\ UNCHANGED <<delivered, producer, sender_lock, varsMerkle, varsChain, varsSync,
                   varsDb>>

\* The receiver takes the root at the head of the queue.
Receive ==
    /\ head_changed_queue.items # <<>>
    /\ delivered' = Append(delivered, Head(head_changed_queue.items))
    /\ head_changed_queue' = queue_recv(head_changed_queue)
    /\ UNCHANGED <<registered, register_result, producer, sender_lock, varsMerkle,
                   varsChain, varsSync, varsDb>>

\* The number of register calls the producers make between them.
ProducerCalls == SLOTS_PER_EPOCH + 2

CallsBegun ==
    Len(registered)
        + Cardinality({p \in Producers : producer[p].pc \in {"called", "locked"}})

\* A producer calls register with an event.
RegisterCalled(p) ==
    /\ producer[p].pc = "idle"
    /\ CallsBegun < ProducerCalls
    /\ \E kind \in EventKinds :
          producer' = [producer EXCEPT ![p] = [@ EXCEPT !.pc = "called", !.kind = kind]]
    /\ UNCHANGED <<head_changed_queue, registered, delivered, register_result,
                   sender_lock, varsMerkle, varsChain, varsSync, varsDb>>

\* Lines 49-52: head_changed_queue_sender.lock() returns once the mutex is free.
SenderLocked(p) ==
    /\ producer[p].pc = "called"
    /\ takes_lock(producer[p].kind)
    /\ sender_lock = None
    /\ sender_lock' = <<p>>
    /\ producer' = [producer EXCEPT ![p].pc = "locked"]
    /\ UNCHANGED <<head_changed_queue, registered, delivered, register_result,
                   varsMerkle, varsChain, varsSync, varsDb>>

\* Lines 53-60: the try_send under the guard, the error it logs, and Ok(()).
TrySent(p) ==
    /\ producer[p].pc = "locked"
    /\ LET r == register(head_changed_queue, producer[p].kind)
       IN  /\ head_changed_queue' = r.queue
           /\ registered' = Append(registered,
                                   [kind |-> producer[p].kind, logged |-> r.logged])
           /\ producer' = [producer EXCEPT ![p] = [@ EXCEPT !.pc = "sent",
                                                            !.result = r.result]]
    /\ UNCHANGED <<delivered, register_result, sender_lock, varsMerkle, varsChain,
                   varsSync, varsDb>>

\* Line 61: the arm ends, the guard is dropped and register returns.
GuardDropped(p) ==
    /\ producer[p].pc = "sent"
    /\ sender_lock' = guard_drop(sender_lock)
    /\ register_result' = producer[p].result
    /\ producer' = [producer EXCEPT ![p] = IdleProducer]
    /\ UNCHANGED <<head_changed_queue, registered, delivered, varsMerkle, varsChain,
                   varsSync, varsDb>>

\* Line 62: every other event returns Ok(()) at once.
OtherKindReturned(p) ==
    /\ producer[p].pc = "called"
    /\ ~takes_lock(producer[p].kind)
    /\ LET r == register(head_changed_queue, producer[p].kind)
       IN  /\ head_changed_queue' = r.queue
           /\ registered' = Append(registered,
                                   [kind |-> producer[p].kind, logged |-> r.logged])
           /\ register_result' = r.result
    /\ producer' = [producer EXCEPT ![p] = IdleProducer]
    /\ UNCHANGED <<delivered, sender_lock, varsMerkle, varsChain, varsSync, varsDb>>

NextProducers ==
    \/ \E p \in Producers : RegisterCalled(p)
    \/ \E p \in Producers : SenderLocked(p)
    \/ \E p \in Producers : TrySent(p)
    \/ \E p \in Producers : GuardDropped(p)
    \/ \E p \in Producers : OtherKindReturned(p)
    \/ Receive

\* Every producer thread is scheduled again and again; the receiver may never
\* come, and no producer has to call register.
FairProducers ==
    \A p \in Producers :
        /\ WF_vars(SenderLocked(p))
        /\ WF_vars(TrySent(p))
        /\ WF_vars(GuardDropped(p))
        /\ WF_vars(OtherKindReturned(p))

NextEvents ==
    \/ Register
    \/ Receive

(***************************************************************************)
(* The LevelDB store (store/src/leveldb_store.rs): a key-value database    *)
(* whose keys are a column followed by a hash, and do_atomically over it.  *)
(***************************************************************************)
Columns == {"BeaconBlock", "BeaconState", "BeaconStateSummary"}

DbHashes == {Root(1), Root(2)}

\* get_key_for_col: the column's bytes followed by the key's bytes.
get_key_for_col(col, key) == <<col>> \o key

DbKeys == {get_key_for_col(col, hash) : col \in Columns, hash \in DbHashes}

\* The items the store's users put: a block under its root, a state under
\* its root.
DbBlock(hash) == BeaconBlock(hash[1] - 1)

DbState(hash) == [slot |-> hash[1] - 1]

\* StorageContainer::new(state).as_ssz_bytes()
StorageContainer_as_ssz_bytes(state) == <<"ssz", "StorageContainer", state.slot>>

StateSummaryBytes == <<"ssz", "StateSummary">>

Some(value) == <<value>>

\* LevelDB::get_bytes, as an Ok reads.
get_bytes(database, col, key) ==
    LET column_key == get_key_for_col(col, key)
    IN  IF database[column_key] = None THEN None ELSE Some(database[column_key])

\* LevelDB::key_exists, as an Ok reads.
key_exists(database, col, key) == database[get_key_for_col(col, key)] # None

DBError == [ok |-> FALSE, message |-> "DBError"]

DbOk == [ok |-> TRUE, message |-> ""]

\* LevelDB::put_bytes: the database's put succeeds or fails.
put_bytes(database, col, key, val, put_ok) ==
    IF put_ok
    THEN [db |-> [database EXCEPT ![get_key_for_col(col, key)] = val], result |-> DbOk]
    ELSE [db |-> database, result |-> DBError]

\* LevelDB::key_delete
key_delete(database, col, key, delete_ok) ==
    IF delete_ok
    THEN [db |-> [database EXCEPT ![get_key_for_col(col, key)] = None], result |-> DbOk]
    ELSE [db |-> database, result |-> DBError]

\* The StoreOp values of a batch.
PutBlock(hash, block) == [op |-> "PutBlock", hash |-> hash, block |-> block]

PutState(hash, state) == [op |-> "PutState", hash |-> hash, state |-> state]

DeleteBlock(hash) == [op |-> "DeleteBlock", hash |-> hash]

DeleteState(hash, slot) == [op |-> "DeleteState", hash |-> hash, slot |-> slot]

StoreOps ==
    {PutBlock(hash, DbBlock(hash)) : hash \in DbHashes}
    \cup {PutState(hash, DbState(hash)) : hash \in DbHashes}
    \cup {DeleteBlock(hash) : hash \in DbHashes}
    \cup {DeleteState(hash, slot) : hash \in DbHashes, slot \in 0..SLOTS_PER_EPOCH}

\* The entries of a Writebatch.
batch_put(key, value) == [put |-> TRUE, key |-> key, value |-> value]

batch_delete(key) == [put |-> FALSE, key |-> key, value |-> None]

\* A batch entry for DeleteState that removes the full state at every slot.
writebatch_entries_bad(store_op) ==
    IF store_op.op = "PutBlock"
    THEN <<batch_put(get_key_for_col("BeaconBlock", store_op.hash),
                     as_ssz_bytes(store_op.block))>>
    ELSE IF store_op.op = "PutState"
    THEN <<batch_put(get_key_for_col("BeaconState", store_op.hash),
                     StorageContainer_as_ssz_bytes(store_op.state))>>
    ELSE IF store_op.op = "DeleteBlock"
    THEN <<batch_delete(get_key_for_col("BeaconBlock", store_op.hash))>>
    ELSE <<batch_delete(get_key_for_col("BeaconStateSummary", store_op.hash)),
           batch_delete(get_key_for_col("BeaconState", store_op.hash))>>

\* The arm of do_atomically's match for one operation: what it adds to the
\* Writebatch.
writebatch_entries(store_op) ==
    IF store_op.op = "PutBlock"
    THEN <<batch_put(get_key_for_col("BeaconBlock", store_op.hash),
                     as_ssz_bytes(store_op.block))>>
    ELSE IF store_op.op = "PutState"
    THEN <<batch_put(get_key_for_col("BeaconState", store_op.hash),
                     StorageContainer_as_ssz_bytes(store_op.state))>>
    ELSE IF store_op.op = "DeleteBlock"
    THEN <<batch_delete(get_key_for_col("BeaconBlock", store_op.hash))>>
    ELSE <<batch_delete(get_key_for_col("BeaconStateSummary", store_op.hash))>>
         \o (IF store_op.slot % SLOTS_PER_EPOCH = 0
             THEN <<batch_delete(get_key_for_col("BeaconState", store_op.hash))>>
             ELSE <<>>)

RECURSIVE leveldb_batch(_)
\* The Writebatch do_atomically builds from the operations, in their order.
leveldb_batch(ops) ==
    IF ops = <<>> THEN <<>>
    ELSE writebatch_entries(Head(ops)) \o leveldb_batch(Tail(ops))

RECURSIVE apply_entries(_, _)
\* The database with the entries of a Writebatch applied in their order.
apply_entries(database, entries) ==
    IF entries = <<>> THEN database
    ELSE apply_entries([database EXCEPT ![Head(entries).key] = Head(entries).value],
                       Tail(entries))

\* Database::write: the whole Writebatch is applied, or the write fails and
\* nothing is.
db_write(database, entries, write_ok) ==
    IF write_ok
    THEN [db |-> apply_entries(database, entries), result |-> DbOk]
    ELSE [db |-> database, result |-> DBError]

RECURSIVE do_atomically_bad(_, _, _)
\* A do_atomically that writes the operations one at a time, the failing
\* write being that of the last operation.
do_atomically_bad(database, ops, write_ok) ==
    IF ops = <<>> THEN [db |-> database, result |-> DbOk]
    ELSE IF Len(ops) = 1
    THEN db_write(database, writebatch_entries(ops[1]), write_ok)
    ELSE do_atomically_bad(apply_entries(database, writebatch_entries(Head(ops))),
                           Tail(ops), write_ok)

\* LevelDB::do_atomically
do_atomically(database, ops, write_ok) ==
    db_write(database, leveldb_batch(ops), write_ok)

InitDb ==
    /\ db = [column_key \in DbKeys |-> None]
    /\ db_before = [column_key \in DbKeys |-> None]
    /\ batch = <<>>
    /\ db_result = DbOk

\* The longest batch the model submits.
MaxBatch == 2

Batches == UNION {[1..n -> StoreOps] : n \in 0..MaxBatch}

\* The bytes the store's users put under a hash in a column.
ItemBytes(col, hash) ==
    IF col = "BeaconBlock" THEN as_ssz_bytes(DbBlock(hash))
    ELSE IF col = "BeaconState" THEN StorageContainer_as_ssz_bytes(DbState(hash))
    ELSE StateSummaryBytes

\* The store first fills through put_bytes and key_delete; then one batch is
\* submitted.
PutBytes ==
    /\ batch = <<>>
    /\ \E col \in Columns, hash \in DbHashes, put_ok \in BOOLEAN :
          LET r == put_bytes(db, col, hash, ItemBytes(col, hash), put_ok)
          IN  /\ db' = r.db
              /\ db_result' = r.result
    /\ db_before' = db
    /\ batch' = <<>>
    /\ UNCHANGED <<varsMerkle, varsChain, varsSync, varsEvents>>

KeyDelete ==
    /\ batch = <<>>
    /\ \E col \in Columns, hash \in DbHashes, delete_ok \in BOOLEAN :
          LET r == key_delete(db, col, hash, delete_ok)
          IN  /\ db' = r.db
              /\ db_result' = r.result
    /\ db_before' = db
    /\ batch' = <<>>
    /\ UNCHANGED <<varsMerkle, varsChain, varsSync, varsEvents>>

DoAtomically ==
    /\ batch = <<>>
    /\ \E ops \in Batches, write_ok \in BOOLEAN :
          LET r == do_atomically(db, ops, write_ok)
          IN  /\ db' = r.db
              /\ db_result' = r.result
              /\ batch' = ops
    /\ db_before' = db
    /\ UNCHANGED <<varsMerkle, varsChain, varsSync, varsEvents>>

NextDb ==
    \/ PutBytes
    \/ KeyDelete
    \/ DoAtomically

(***************************************************************************)
(* The hasher as a state machine: construct, absorb leaves, finish.        *)
(***************************************************************************)
InitMerkle ==
    /\ \/ \E d \in 1..MaxDepth :
             /\ ctor = [kind |-> "new", arg |-> d]
             /\ stream = new(d)
       \/ \E n \in 0..MaxLeafCount :
             /\ ctor = [kind |-> "new_for_leaf_count", arg |-> n]
             /\ stream = new_for_leaf_count(n)
    /\ leaves = <<>>
    /\ res = Ok
    /\ mpc = "open"
    /\ out = None

\* The hasher while the other components run: a fresh depth-1 stream.
InitMerkleIdle ==
    /\ ctor = [kind |-> "new", arg |-> 1]
    /\ stream = new(1)
    /\ leaves = <<>>
    /\ res = Ok
    /\ mpc = "open"
    /\ out = None

ProcessLeaf(leaf) ==
    /\ mpc = "open"
    /\ Len(leaves) < MaxCalls
    /\ LET r == process_leaf(stream, leaf)
       IN  /\ stream' = r.s
           /\ res' = r.res
    /\ leaves' = Append(leaves, leaf)
    /\ UNCHANGED <<ctor, mpc, out, varsChain, varsSync, varsEvents, varsDb>>

FinishIter ==
    /\ mpc \in {"open", "finishing"}
    /\ LET r == finish_iter(stream)
       IN  /\ stream' = r.s
           /\ out' = r.ret
           /\ mpc' = IF r.panic THEN "panic"
                     ELSE IF r.ret # None THEN "done" ELSE "finishing"
    /\ UNCHANGED <<ctor, leaves, res, varsChain, varsSync, varsEvents, varsDb>>

\* The inline capacity of SmallVec8.
SmallVecInline == 8

\* A depth whose stack outgrows the inline buffer, and the calls that fill it.
DeepDepth == 10

DeepCalls == 511

DeepLeaf == <<1>>

\* Streams of the depth that fills the inline buffer, and of a deeper one.
InitMerkleDeep ==
    /\ \E d \in {SmallVecInline, DeepDepth} :
          /\ ctor = [kind |-> "new", arg |-> d]
          /\ stream = new(d)
    /\ leaves = <<>>
    /\ res = Ok
    /\ mpc = "open"
    /\ out = None

ProcessLeafDeep ==
    /\ mpc = "open"
    /\ Len(leaves) < DeepCalls
    /\ LET r == process_leaf(stream, DeepLeaf)
       IN  /\ stream' = r.s
           /\ res' = r.res
    /\ leaves' = Append(leaves, DeepLeaf)
    /\ UNCHANGED <<ctor, mpc, out, varsChain, varsSync, varsEvents, varsDb>>

NextMerkleDeep ==
    \/ ProcessLeafDeep
    \/ FinishIter

NextMerkle ==
    \/ \E leaf \in LeafValues : ProcessLeaf(leaf)
    \/ FinishIter

InitMerkleSpec ==
    /\ InitMerkle
    /\ InitChain
    /\ InitSync
    /\ InitEvents
    /\ InitDb

SpecMerkle == InitMerkleSpec /\ [][NextMerkle]_vars

InitMerkleDeepSpec ==
    /\ InitMerkleDeep
    /\ InitChain
    /\ InitSync
    /\ InitEvents
    /\ InitDb

SpecMerkleDeep == InitMerkleDeepSpec /\ [][NextMerkleDeep]_vars

InitSyncSpec ==
    /\ InitMerkleIdle
    /\ InitChain
    /\ InitSync
    /\ InitEvents
    /\ InitDb

SpecSync == InitSyncSpec /\ [][NextSync]_vars

NextServe ==
    \/ \E skipped \in 0..(MaxSlot - 1) : ImportBlock(skipped)
    \/ StoreFails
    \/ \E root \in ChainRoots : StoreLoses(root)
    \/ BlocksByRootRequest
    \/ BlocksByRangeRequest

SpecServe == InitSyncSpec /\ [][NextServe]_vars

NextGossip ==
    \/ \E skipped \in 0..(MaxSlot - 1) : ImportBlock(skipped)
    \/ StoreFails
    \/ \E root \in ChainRoots : StoreLoses(root)
    \/ BlockGossip
    \/ AttestationGossip
    \/ ShouldForwardBlock
    \/ ShouldForwardAttestation

SpecGossip == InitSyncSpec /\ [][NextGossip]_vars

NextRelay ==
    \/ BlocksByRangeResponseReceived
    \/ BlocksByRootResponseReceived

SpecRelay == InitSyncSpec /\ [][NextRelay]_vars

NextClosed ==
    \/ ImportBlock(0)
    \/ \E root \in ChainRoots : StoreLoses(root)
    \/ SyncManagerStops
    \/ NetworkServiceStops
    \/ StatusRequest
    \/ BlocksByRootRequest
    \/ BlockGossip

SpecClosed == InitSyncSpec /\ [][NextClosed]_vars

SpecEvents == InitSyncSpec /\ [][NextEvents]_vars

SpecDb == InitSyncSpec /\ [][NextDb]_vars

SpecProducers == InitSyncSpec /\ [][NextProducers]_vars /\ FairProducers

(***************************************************************************)
(* Calls whose reads of the chain interleave with the chain's own          *)
(* progress.  The sync code runs on its own task while the chain imports   *)
(* and finalizes blocks, and it takes no lock across two reads: every      *)
(* head() call, every root_at_slot() and every store read sees the chain   *)
(* as it is at that moment.  A call is therefore a sequence of steps, one  *)
(* per read, with the chain free to move between two of them.              *)
(***************************************************************************)
RaceOps == {"status_message", "process_status", "should_forward_block"}

InCall == ev.op \in RaceOps /\ ev.pc # "done"

\* The status messages of the peers whose handshake interleaves.
RaceStatusMessages ==
    [fork_version    : ForkVersions,
     finalized_root  : {Root(1), ForeignRoot},
     finalized_epoch : 0..1,
     head_root       : {Root(2), ForeignRoot},
     head_slot       : {0, MaxSlot + 2}]

\* process_status evaluated without interleaving on the chain as it is now.
AtomicStatus(remote) ==
    LET local == PeerSyncInfo_from(status_message(head, head))
    IN  [local |-> local, rule |-> status_rule(local, remote)]

\* What a call in progress remembers of a chain that moved: the handshake
\* keeps what it would have decided on each chain it ran alongside.
chain_moved ==
    IF ev.op = "process_status"
    THEN \E r \in {ev.remote} :
            ev' = [ev EXCEPT !.atomic = @ \cup {AtomicStatus(r)'}]
    ELSE ev' = ev

\* The chain imports a block while a call is between two of its reads.
ImportsMeanwhile(skipped) ==
    /\ InCall
    /\ head.slot + skipped + 1 <= MaxSlot
    /\ LET slot == head.slot + skipped + 1
           root == Root(slot + 1)
       IN  /\ block_roots' = block_roots
                  \o [i \in 1..skipped |-> head.beacon_block_root] \o <<root>>
           /\ store' = store \cup {root}
           /\ head' = [head EXCEPT !.beacon_block_root = root, !.slot = slot]
    /\ UNCHANGED <<store_ok, clock>>
    /\ chain_moved
    /\ UNCHANGED <<net_send, net_open, sync_send, sync_open, sent_order, relayed,
                   panicked, varsMerkle, varsEvents, varsDb>>

\* The chain finalizes a later checkpoint while a call is between two reads.
FinalizesMeanwhile(epoch) ==
    /\ InCall
    /\ epoch > head.finalized_epoch
    /\ start_slot(epoch) <= head.slot
    /\ head' = [head EXCEPT !.finalized_epoch = epoch,
                            !.finalized_root = block_roots[start_slot(epoch) + 1]]
    /\ UNCHANGED <<block_roots, store, store_ok, clock>>
    /\ chain_moved
    /\ UNCHANGED <<net_send, net_open, sync_send, sync_open, sent_order, relayed,
                   panicked, varsMerkle, varsEvents, varsDb>>

\* status_message, line 671: `let state = &beacon_chain.head().beacon_state`.
StatusMessageReadsState ==
    /\ ev = NoEvent
    /\ ev' = [op |-> "status_message", pc |-> "state_read", state_head |-> head,
              root_head |-> head, message |-> NoStatus]
    /\ UNCHANGED <<net_send, net_open, sync_send, sync_open, sent_order, relayed,
                   panicked, varsChain, varsMerkle, varsEvents, varsDb>>

\* status_message, line 677: `head_root: beacon_chain.head().beacon_block_root`,
\* and the message is returned.
StatusMessageReadsRoot ==
    /\ ev.op = "status_message" /\ ev.pc = "state_read"
    /\ ev' = [ev EXCEPT !.pc = "done", !.root_head = head,
                        !.message = status_message(ev.state_head, head)]
    /\ UNCHANGED <<net_send, net_open, sync_send, sync_open, sent_order, relayed,
                   panicked, varsChain, varsMerkle, varsEvents, varsDb>>

\* process_status, line 167: PeerSyncInfo::from(&self.chain) begins with the
\* read of the head state.
ProcessStatusReadsState ==
    /\ ev = NoEvent
    /\ \E status \in RaceStatusMessages :
          LET remote == PeerSyncInfo_from(status)
          IN  ev' = [op |-> "process_status", pc |-> "state_read", peer |-> "p1",
                     remote |-> remote, state_head |-> head, local |-> None,
                     exists_read |-> None, rule |-> "",
                     at_start |-> AtomicStatus(remote),
                     atomic |-> {AtomicStatus(remote)}]
    /\ UNCHANGED <<net_send, net_open, sync_send, sync_open, sent_order, relayed,
                   panicked, varsChain, varsMerkle, varsEvents, varsDb>>

\* ... and ends with the read of the head root: the local PeerSyncInfo.
ProcessStatusTakesLocal ==
    /\ ev.op = "process_status" /\ ev.pc = "state_read"
    /\ ev' = [ev EXCEPT !.pc = "local",
                        !.local = <<PeerSyncInfo_from(status_message(ev.state_head, head))>>]
    /\ UNCHANGED <<net_send, net_open, sync_send, sync_open, sent_order, relayed,
                   panicked, varsChain, varsMerkle, varsEvents, varsDb>>

\* The call ends with the rule that fired: its sends are made.
status_decided(rule) ==
    LET ch == status_outcome(Channels(net_send, sync_send), ev.peer, ev.remote, rule)
    IN  /\ ev' = [ev EXCEPT !.pc = "done", !.rule = rule]
        /\ net_send' = ch.net
        /\ sync_send' = ch.sync
        /\ sent_order' = ch.order

status_undecided(pc) ==
    /\ ev' = [ev EXCEPT !.pc = pc]
    /\ UNCHANGED <<net_send, sync_send, sent_order>>

\* process_status, lines 171-196: the fork versions are compared, then the
\* slot clock is read for the peer's head slot.
ProcessStatusReadsSlot ==
    /\ ev.op = "process_status" /\ ev.pc = "local"
    /\ IF fork_mismatch(ev.local[1], ev.remote) THEN status_decided("network_id")
       ELSE IF head_too_far_ahead(ev.remote) THEN status_decided("clock")
       ELSE status_undecided("slot_read")
    /\ UNCHANGED <<net_open, sync_open, relayed, panicked, varsChain, varsMerkle,
                   varsEvents, varsDb>>

\* process_status, lines 197-233: root_at_slot is looked up for the peer's
\* finalized checkpoint, then the finalized epochs are compared.
ProcessStatusLooksUpRoot ==
    /\ ev.op = "process_status" /\ ev.pc = "slot_read"
    /\ IF finalized_diverges(ev.local[1], ev.remote)
       THEN status_decided("finalized_chain")
       ELSE IF lower_finalized_epoch(ev.local[1], ev.remote)
       THEN status_decided("NaivePeer")
       ELSE status_undecided("root_looked_up")
    /\ UNCHANGED <<net_open, sync_open, relayed, panicked, varsChain, varsMerkle,
                   varsEvents, varsDb>>

\* process_status, lines 234-262: the store is asked for the peer's head block.
ProcessStatusChecksStore ==
    /\ ev.op = "process_status" /\ ev.pc = "root_looked_up"
    /\ LET known == store_exists_or_false(ev.remote.head_root)
           ch == status_outcome(Channels(net_send, sync_send), ev.peer, ev.remote,
                                IF known THEN "known_chain" ELSE "UsefulPeer")
       IN  /\ ev' = [ev EXCEPT !.pc = "done", !.exists_read = <<known>>,
                               !.rule = IF known THEN "known_chain" ELSE "UsefulPeer"]
           /\ net_send' = ch.net
           /\ sync_send' = ch.sync
           /\ sent_order' = ch.order
    /\ UNCHANGED <<net_open, sync_open, relayed, panicked, varsChain, varsMerkle,
                   varsEvents, varsDb>>

\* should_forward_block, lines 485-493: the parent block is read from the
\* store and its state root compared with the head's.
ForwardComparesHead ==
    /\ ev = NoEvent
    /\ \E block \in GossipBlocks, answers \in ForwardingAnswers :
          ev' = [op |-> "should_forward_block",
                 pc |-> IF store_get(block.parent_root) = None
                        THEN "done" ELSE "compared",
                 block |-> block, answers |-> answers, head_compared |-> head,
                 found |-> None, forward |-> FALSE, checked |-> None]
    /\ UNCHANGED <<net_send, net_open, sync_send, sync_open, sent_order, relayed,
                   panicked, varsChain, varsMerkle, varsEvents, varsDb>>

\* should_forward_block, lines 494-565: the state is taken, from a second
\* head() or from the store, and the signature is checked with it.
ForwardTakesState ==
    /\ ev.op = "should_forward_block" /\ ev.pc = "compared"
    /\ LET returned == should_forward_block(ev.block, ev.head_compared, head,
                                            ev.answers)
       IN  ev' = [ev EXCEPT !.pc = "done",
                           !.found = parent_block_opt(ev.block, ev.head_compared,
                                                      head, ev.answers),
                           !.forward = returned.forward,
                           !.checked = returned.checked]
    /\ UNCHANGED <<net_send, net_open, sync_send, sync_open, sent_order, relayed,
                   panicked, varsChain, varsMerkle, varsEvents, varsDb>>

NextRace ==
    \/ \E skipped \in 0..1 : ImportBlock(skipped)
    \/ \E epoch \in 1..MaxEpoch : Finalize(epoch)
    \/ \E skipped \in 0..1 : ImportsMeanwhile(skipped)
    \/ \E epoch \in 1..MaxEpoch : FinalizesMeanwhile(epoch)
    \/ StatusMessageReadsState
    \/ StatusMessageReadsRoot
    \/ ProcessStatusReadsState
    \/ ProcessStatusTakesLocal
    \/ ProcessStatusReadsSlot
    \/ ProcessStatusLooksUpRoot
    \/ ProcessStatusChecksStore
    \/ ForwardComparesHead
    \/ ForwardTakesState

SpecRace == InitSyncSpec /\ [][NextRace]_vars

(***************************************************************************)
(* The reference root: the full binary tree over the leaves padded with    *)
(* all-zero leaves to the tree's capacity (merkleize_padded).              *)
(***************************************************************************)
Padded(ls, n) == [i \in 1..n |-> IF i <= Len(ls) THEN ls[i] ELSE Hash256_zero]

RECURSIVE tree_root(_)
tree_root(ls) ==
    IF Len(ls) = 1 THEN ls[1]
    ELSE LET half == Len(ls) \div 2
         IN  Digest(tree_root(SubSeq(ls, 1, half)),
                    tree_root(SubSeq(ls, half + 1, Len(ls))))

merkleize_padded(ls, n) == tree_root(Padded(ls, n))

Capacity(depth) == Pow2(depth - 1)

\* The smallest depth whose tree holds n leaves.
SmallestDepth(n) ==
    CHOOSE d \in 1..(n + 1) :
        /\ Capacity(d) >= n
        /\ \A e \in 1..(d - 1) : Capacity(e) < n

\* C1: new(d), process_leaf on n <= 2^(d-1) leaves in order, then finish()
\* returns the root of the full tree of 2^(d-1) leaves in which the supplied
\* leaves are followed by all-zero leaves; every such call returns Ok.
C1_MatchesReference ==
    (ctor.kind = "new" /\ Len(leaves) <= Capacity(ctor.arg)) =>
        /\ res.ok
        /\ mpc # "panic"
        /\ mpc = "done" =>
              out = <<merkleize_padded(leaves, Capacity(ctor.arg))>>

C1_Witness ==
    /\ ctor = [kind |-> "new", arg |-> 3]
    /\ mpc = "done"
    /\ leaves = <<<<1>>, <<0>>, <<2>>>>
    /\ out = <<Digest(Digest(<<1>>, <<0>>), Digest(<<2>>, <<0>>))>>

\* C2: for n > 0, new_for_leaf_count(n) and new(d), d the smallest depth with
\* 2^(d-1) >= n, return the same root from finish() after the same n leaves;
\* new_for_leaf_count(0) builds a depth-1 stream.
C2_LeafCountMatchesDepth ==
    ctor.kind = "new_for_leaf_count" =>
        /\ ctor.arg = 0 => stream.depth = 1
        /\ (ctor.arg > 0 /\ mpc = "done" /\ Len(leaves) = ctor.arg) =>
              out = finish(process_leaves(new(SmallestDepth(ctor.arg)), leaves))

C2_Witness ==
    /\ ctor = [kind |-> "new_for_leaf_count", arg |-> 3]
    /\ mpc = "done"
    /\ Len(leaves) = 3
    /\ stream.depth = 3

AcceptedCalls(depth) == Pow2(depth + 1) - Pow2(depth - 1) + 1

C4_RejectsBeyondCapacity ==
    Len(leaves) > Capacity(stream.depth) => ~res.ok

\* Whether two leaf sequences differ in at least one leaf.
Differ(a, b) == \E i \in 1..Len(a) : a[i] # b[i]

\* C5: no leaf is silently dropped: two leaf sequences of the same length, both
\* accepted entirely with Ok by streams of the same depth and differing in at
\* least one leaf, give different roots.
C5_NoSilentTruncation ==
    (mpc = "done" /\ res.ok) =>
        \A other \in [1..Len(leaves) -> LeafValues] :
            Differ(leaves, other) =>
                finish(process_leaves(new(stream.depth), other)) # out

\* C6: a depth-1 stream returns 32 zero bytes from finish() with no leaves, and
\* the leaf itself, unhashed, after exactly one leaf.
C6_DepthOne ==
    (stream.depth = 1 /\ mpc = "done") =>
        /\ Len(leaves) = 0 => out = <<Hash256_zero>>
        /\ Len(leaves) = 1 => out = <<leaves[1]>>

C6_Witness ==
    /\ stream.depth = 1
    /\ mpc = "done"
    /\ leaves = <<<<2>>>>
    /\ out = <<<<2>>>>

(***************************************************************************)
(* The status handshake.  In a state where the processor has handled a     *)
(* Status event, `ev` is that event and the chain is as the handler read   *)
(* it.                                                                     *)
(***************************************************************************)
HandledStatus == ev.op \in {"on_status_request", "on_status_response"}

Goodbyes == SelectSeq(net_send, LAMBDA m : m.body = "Goodbye")

Disconnects == SelectSeq(net_send, LAMBDA m : m.msg = "Disconnect")

AddPeers == SelectSeq(sync_send, LAMBDA m : m.msg = "AddPeer")

\* What process_status put on the network channel: everything but the Status
\* response on_status_request sends first.
NetOfProcessStatus ==
    SelectSeq(net_send, LAMBDA m : ~(m.event = "Response" /\ m.body = "Status"))

\* One Goodbye(IrrelevantNetwork) request with id 0 and one Disconnect, both for
\* the event's peer, and nothing to the sync manager.
DisconnectedIrrelevant ==
    /\ net_open =>
          NetOfProcessStatus =
              << [msg |-> "RPC", peer |-> ev.peer, event |-> "Request", id |-> 0,
                  body |-> "Goodbye", reason |-> "IrrelevantNetwork",
                  status |-> NoStatus],
                 [msg |-> "Disconnect", peer |-> ev.peer, event |-> "", id |-> 0,
                  body |-> "", reason |-> "", status |-> NoStatus] >>
    /\ sync_send = <<>>

NotDisconnected == Goodbyes = <<>> /\ Disconnects = <<>>

LocalSlot == IF clock = None THEN 0 ELSE clock[1]

ForkDiffers == ev.status.fork_version # head.fork_version

HeadTooFarAhead == ev.status.head_slot > LocalSlot + 1

\* Our chain's root at the start slot of the remote's finalized epoch is not
\* the remote's finalized root (a lookup that yields nothing counts as unequal).
CanonicalRootDisagrees ==
    LET slot == ev.status.finalized_epoch * SLOTS_PER_EPOCH
    IN  ~(/\ store_ok
          /\ slot < Len(block_roots)
          /\ block_roots[slot + 1] = ev.status.finalized_root)

DivergentFinalized ==
    /\ ev.status.finalized_epoch <= head.finalized_epoch
    /\ ev.status.finalized_root # <<0>>
    /\ head.finalized_root # <<0>>
    /\ CanonicalRootDisagrees

\* C7: whenever remote.fork_version differs from local.fork_version,
\* process_status disconnects the peer exactly once with IrrelevantNetwork and
\* sends no AddPeer, whatever the remote's head slot, finalized checkpoint or
\* head root.
C7_ForkMismatchDisconnects ==
    (HandledStatus /\ ForkDiffers) => DisconnectedIrrelevant

C7_Witness ==
    /\ ev.op = "on_status_response"
    /\ ForkDiffers
    /\ ~HeadTooFarAhead
    /\ ~DivergentFinalized
    /\ ev.status.finalized_epoch > head.finalized_epoch
    /\ Len(Goodbyes) = 1
    /\ Len(Disconnects) = 1

\* C8: with equal fork versions and remote.head_slot > local_slot + 1 (the
\* clock reading, 0 when the clock fails), process_status disconnects with
\* IrrelevantNetwork and sends no AddPeer; a remote head slot of at most
\* local_slot + 1 does not by itself disconnect.
C8_FutureSlotDisconnects ==
    (HandledStatus /\ ~ForkDiffers) =>
        /\ HeadTooFarAhead => DisconnectedIrrelevant
        /\ (~HeadTooFarAhead /\ ~DivergentFinalized) => NotDisconnected

C8_Witness ==
    /\ HandledStatus
    /\ ~ForkDiffers
    /\ clock = None
    /\ ev.status.head_slot = 2
    /\ ~DivergentFinalized
    /\ Len(Goodbyes) = 1
    /\ Len(Disconnects) = 1

C10_NaivePeerNoAction ==
    (/\ HandledStatus
     /\ ~ForkDiffers
     /\ ~HeadTooFarAhead
     /\ ~DivergentFinalized
     /\ ev.status.finalized_epoch < head.finalized_epoch) =>
        /\ NetOfProcessStatus = <<>>
        /\ sync_send = <<>>

C10_Witness ==
    /\ ev.op = "on_status_response"
    /\ ~ForkDiffers
    /\ ~HeadTooFarAhead
    /\ ~DivergentFinalized
    /\ ev.status.finalized_epoch < head.finalized_epoch
    /\ ev.status.finalized_root # <<0>>
    /\ net_send = <<>>
    /\ sync_send = <<>>

\* Rules 1-4 of process_status do not match the handled status.
PastRuleFour ==
    /\ ~ForkDiffers
    /\ ~HeadTooFarAhead
    /\ ~DivergentFinalized
    /\ ev.status.finalized_epoch >= head.finalized_epoch

\* C11: when rules 1-4 do not match, process_status sends exactly one
\* AddPeer(peer, remote) with the remote's PeerSyncInfo unchanged to the sync
\* manager and no disconnect, whether remote.head_root is found in the store,
\* is not found, or the existence check fails.
C11_AddPeerPastRuleFour ==
    (HandledStatus /\ PastRuleFour) =>
        /\ sync_send = << [msg |-> "AddPeer", peer |-> ev.peer, info |-> ev.status] >>
        /\ NetOfProcessStatus = <<>>

C11_Witness ==
    /\ HandledStatus
    /\ PastRuleFour
    /\ ~store_ok
    /\ ev.status.head_root \in store
    /\ Len(AddPeers) = 1

\* C12: one process_status call has exactly one of three outcomes: one
\* disconnect with IrrelevantNetwork (one Goodbye, one Disconnect) and no sync
\* message; nothing at all; or one AddPeer(peer, remote) and no disconnect.
C12_TotalAndExclusive ==
    HandledStatus =>
        \/ DisconnectedIrrelevant
        \/ NetOfProcessStatus = <<>> /\ sync_send = <<>>
        \/ /\ NetOfProcessStatus = <<>>
           /\ sync_send = << [msg |-> "AddPeer", peer |-> ev.peer, info |-> ev.status] >>

C12_Witness ==
    /\ ev.op = "on_status_request"
    /\ ~ForkDiffers
    /\ HeadTooFarAhead
    /\ ev.status.head_root \in store
    /\ store_ok
    /\ ev.status.finalized_epoch > head.finalized_epoch
    /\ Len(Goodbyes) = 1
    /\ Len(Disconnects) = 1
    /\ AddPeers = <<>>

\* The local status: the fields of the chain's head.
LocalSnapshot ==
    [fork_version    |-> head.fork_version,
     finalized_root  |-> head.finalized_root,
     finalized_epoch |-> head.finalized_epoch,
     head_root       |-> head.beacon_block_root,
     head_slot       |-> head.slot]

StatusMessagesSent == SelectSeq(net_send, LAMBDA m : m.body = "Status")

\* C13: on_connect sends exactly one Status request with the local snapshot on
\* request id 0 and nothing else; on_status_request sends a Status response
\* with the local snapshot on the received request id as the first of all its
\* sends, before any Goodbye, Disconnect or AddPeer; on_status_response sends
\* no Status request or response.
C13_Handshake ==
    /\ ev.op = "on_connect" =>
          /\ net_send = << [msg |-> "RPC", peer |-> ev.peer, event |-> "Request",
                            id |-> 0, body |-> "Status", reason |-> "",
                            status |-> LocalSnapshot] >>
          /\ sync_send = <<>>
    /\ ev.op = "on_status_request" =>
          /\ sent_order # <<>>
          /\ sent_order[1] = "net"
          /\ net_send[1] = [msg |-> "RPC", peer |-> ev.peer, event |-> "Response",
                            id |-> ev.request_id, body |-> "Status",
                            reason |-> "", status |-> LocalSnapshot]
          /\ Len(StatusMessagesSent) = 1
    /\ ev.op = "on_status_response" => StatusMessagesSent = <<>>

C13_Witness ==
    /\ ev.op = "on_status_request"
    /\ ev.request_id = 2
    /\ ForkDiffers
    /\ head.slot = 2
    /\ Len(net_send) = 3
    /\ net_send[1].body = "Status"
    /\ net_send[2].body = "Goodbye"
    /\ net_send[3].msg = "Disconnect"

(***************************************************************************)
(* The block servers.                                                      *)
(***************************************************************************)
\* A chunk of a block response as it reaches the network channel.
Chunk(body, slot) ==
    [msg |-> "RPC", peer |-> ev.peer, event |-> "Response", id |-> ev.request_id,
     body |-> body, reason |-> "", status |-> NoStatus, bytes |-> <<"ssz", slot>>]

Termination(kind) ==
    [msg |-> "RPC", peer |-> ev.peer, event |-> "Response", id |-> ev.request_id,
     body |-> "StreamTermination", reason |-> "", status |-> NoStatus,
     bytes |-> <<>>, kind |-> kind]

\* The requested roots whose block the store returns, in request order.
FoundRoots == SelectSeq(ev.block_roots, LAMBDA r : store_ok /\ r \in store)

\* C14: on_blocks_by_root_request emits one BlocksByRoot chunk per requested
\* root found in the store, in request order, skipping absent or unreadable
\* roots, and then exactly one StreamTermination(BlocksByRoot) as the last
\* message, all to the requesting peer on the request's id; the termination is
\* sent also when no block was found or no root was requested.
C14_BlocksByRootStream ==
    ev.op = "on_blocks_by_root_request" =>
        /\ net_send =
              [i \in 1..Len(FoundRoots) |-> Chunk("BlocksByRoot", FoundRoots[i][1] - 1)]
              \o << Termination("BlocksByRoot") >>
        /\ sync_send = <<>>

C14_Witness ==
    /\ ev.op = "on_blocks_by_root_request"
    /\ ev.block_roots = << Root(2), ForeignRoot, Root(1) >>
    /\ store_ok
    /\ store = {Root(1), Root(2)}
    /\ Len(net_send) = 3
    /\ net_send[1].bytes = <<"ssz", 1>>
    /\ net_send[2].bytes = <<"ssz", 0>>
    /\ net_send[3].body = "StreamTermination"

HandledRange == ev.op = "on_blocks_by_range_request"

\* The slot of the block a chunk carries.
ChunkSlot(m) == m.bytes[2]

\* C15: the chunks on_blocks_by_range_request emits carry blocks in strictly
\* ascending slot order, every slot within [start_slot, start_slot + count),
\* hence at most count chunks, and exactly one StreamTermination(BlocksByRange)
\* follows as the last message, on the request's peer and id, also when no
\* block is emitted.
C15_RangeStream ==
    HandledRange =>
        LET n == Len(net_send)
        IN  /\ n >= 1
            /\ net_send[n] = Termination("BlocksByRange")
            /\ \A i \in 1..(n - 1) :
                  /\ net_send[i] = Chunk("BlocksByRange", ChunkSlot(net_send[i]))
                  /\ ev.start_slot <= ChunkSlot(net_send[i])
                  /\ ChunkSlot(net_send[i]) < ev.start_slot + ev.count
                  /\ i > 1 => ChunkSlot(net_send[i - 1]) < ChunkSlot(net_send[i])
            /\ n - 1 <= ev.count
            /\ sync_send = <<>>

\* The slots, ascending, of the canonical blocks the store returns and whose
\* slot lies in [start_slot, start_slot + count).
CanonicalSlotsInRange ==
    SelectSeq([i \in 1..Len(block_roots) |-> i - 1],
              LAMBDA slot :
                  /\ block_roots[slot + 1] = Root(slot + 1)
                  /\ store_ok
                  /\ Root(slot + 1) \in store
                  /\ ev.start_slot <= slot
                  /\ slot < ev.start_slot + ev.count)

\* C16: on_blocks_by_range_request emits every canonical block of the store
\* whose slot lies in [start_slot, start_slot + count) exactly once, nothing
\* for a skipped slot or for a canonical root missing from the store, no block
\* from before start_slot, and then the termination.
C16_RangeComplete ==
    HandledRange =>
        net_send =
            [i \in 1..Len(CanonicalSlotsInRange) |->
                Chunk("BlocksByRange", CanonicalSlotsInRange[i])]
            \o << Termination("BlocksByRange") >>

\* The sync message a relayed response is to become.
Forwarded(call) ==
    [msg |-> IF call.op = "on_blocks_by_range_response"
             THEN "BlocksByRangeResponse" ELSE "BlocksByRootResponse",
     peer |-> call.peer, request_id |-> call.request_id,
     beacon_block |-> call.beacon_block]

\* C17: each call of on_blocks_by_range_response / on_blocks_by_root_response
\* puts exactly one BlocksByRangeResponse / BlocksByRootResponse with the same
\* peer, request id and Option<block> (None stays None) on the sync channel, in
\* the order of the calls, and nothing on the network channel.
C17_ResponsesRelayedInOrder ==
    /\ sync_send = [i \in 1..Len(relayed) |-> Forwarded(relayed[i])]
    /\ (relayed # <<>>) => net_send = <<>>

C17_Witness ==
    /\ Len(relayed) = 3
    /\ relayed[1].op = "on_blocks_by_root_response"
    /\ relayed[1].beacon_block = << [slot |-> 1, state_root |-> <<<<0>>, <<1>>>>] >>
    /\ relayed[2].op = "on_blocks_by_range_response"
    /\ relayed[2].beacon_block = <<>>
    /\ relayed[2].peer # relayed[1].peer
    /\ relayed[3].op = "on_blocks_by_root_response"
    /\ relayed[3].beacon_block = <<>>
    /\ Len(sync_send) = 3
    /\ sync_send[2].msg = "BlocksByRangeResponse"
    /\ sync_send[2].beacon_block = <<>>

(***************************************************************************)
(* Gossip.                                                                 *)
(***************************************************************************)
\* C18: on_block_gossip sends exactly one UnknownBlock(peer, block) to the sync
\* manager if and only if the chain engine returns Ok(ParentUnknown); for
\* every other outcome and for an engine error it sends nothing to the sync
\* manager; it never sends anything to the network, so no Goodbye or
\* Disconnect either.
C18_BlockGossipDispatch ==
    ev.op = "on_block_gossip" =>
        /\ net_send = <<>>
        /\ IF ev.processed = [ok |-> TRUE, outcome |-> "ParentUnknown"]
           THEN sync_send = << [msg |-> "UnknownBlock", peer |-> ev.peer,
                                block |-> ev.block] >>
           ELSE sync_send = <<>>

C18_Witness ==
    /\ ev.op = "on_block_gossip"
    /\ ev.processed.outcome = "ParentUnknown"
    /\ ev.block.parent_root = ForeignRoot
    /\ Len(sync_send) = 1
    /\ sync_send[1].block.slot = 2
    /\ net_send = <<>>

\* C19: on_attestation_gossip disconnects the sending peer with
\* GoodbyeReason::Fault for Invalid and EmptyAggregationBitfield; sends exactly
\* one UnknownBlockHash(peer, root) and no disconnect for
\* UnknownHeadBlock{root}; sends nothing for Processed, AttestsToFutureState
\* and FinalizedSlot; and sends nothing for an engine error.
C19_AttestationGossipDispatch ==
    ev.op = "on_attestation_gossip" =>
        IF ev.processed.ok /\ ev.processed.outcome \in {"Invalid", "EmptyAggregationBitfield"}
        THEN /\ net_send =
                  << [msg |-> "RPC", peer |-> ev.peer, event |-> "Request", id |-> 0,
                      body |-> "Goodbye", reason |-> "Fault", status |-> NoStatus],
                     [msg |-> "Disconnect", peer |-> ev.peer, event |-> "", id |-> 0,
                      body |-> "", reason |-> "", status |-> NoStatus] >>
             /\ sync_send = <<>>
        ELSE IF ev.processed.ok /\ ev.processed.outcome = "UnknownHeadBlock"
        THEN /\ net_send = <<>>
             /\ sync_send = << [msg |-> "UnknownBlockHash", peer |-> ev.peer,
                                 root |-> ev.processed.beacon_block_root] >>
        ELSE net_send = <<>> /\ sync_send = <<>>

C19_Witness ==
    /\ ev.op = "on_attestation_gossip"
    /\ ev.processed.outcome = "EmptyAggregationBitfield"
    /\ Len(net_send) = 2
    /\ net_send[1].reason = "Fault"
    /\ net_send[2].msg = "Disconnect"
    /\ net_send[2].peer = ev.peer

\* C20: whenever should_forward_block(B) returns true, the signature of B was
\* verified as valid against the public key of the proposer computed for
\* B.slot from a state whose slot is B.slot, over B.signed_root() and the
\* BeaconProposer domain of epoch(B.slot) under that state's fork.
C20_ForwardImpliesVerifiedAtBlockSlot ==
    (ev.op = "should_forward_block" /\ ev.forward) =>
        /\ ev.checked # <<>>
        /\ ev.checked[1].state_slot = ev.block.slot
        /\ ev.checked[1].pubkey = ev.answers.proposer.validator[1]
        /\ ev.checked[1].message = <<ev.block.slot + 1>>
        /\ ev.checked[1].domain.epoch = ev.block.slot \div SLOTS_PER_EPOCH
        /\ ev.block.signature =
              [key |-> ev.checked[1].pubkey, message |-> ev.checked[1].message,
               domain |-> ev.checked[1].domain]

HandledForward == ev.op = "should_forward_block"

\* The slot of the block stored under the gossiped block's parent_root.
ParentSlot == ev.block.parent_root[1] - 1

ParentRead == store_ok /\ ev.block.parent_root \in store

\* The signing state is the head state when the parent is the head block, and
\* is read from the store otherwise.
StateObtained ==
    /\ ParentRead
    /\ \/ head.slot = ParentSlot
       \/ store_ok /\ ev.answers.state_in_store

\* Line 515: the state is fast-forwarded and the committee cache built.
Advances ==
    (ev.block.slot \div SLOTS_PER_EPOCH) + 1 > ParentSlot \div SLOTS_PER_EPOCH

\* A per_slot_processing call is made, and fails.
PerSlotStepFails ==
    /\ StateObtained
    /\ Advances
    /\ ParentSlot < ev.block.slot
    /\ ~ev.answers.per_slot_ok

\* build_committee_cache is called, and fails.
CommitteeCacheFails ==
    /\ StateObtained
    /\ Advances
    /\ ~PerSlotStepFails
    /\ ~ev.answers.committee_cache_ok

ProposerUnavailable ==
    \/ ~ev.answers.proposer.ok
    \/ ev.answers.proposer.validator = <<>>

\* C21: should_forward_block returns false, and does not panic, whenever the
\* parent block is absent or unreadable, the signing state cannot be obtained,
\* a per-slot processing step fails, building the committee cache fails, or
\* the proposer cannot be derived or is not in the validator registry.
C21_FalseOnMissingPrerequisite ==
    (/\ HandledForward
     /\ \/ ~ParentRead
        \/ ~StateObtained
        \/ PerSlotStepFails
        \/ CommitteeCacheFails
        \/ ProposerUnavailable) =>
        /\ ~ev.forward
        /\ ~panicked

C21_Witness ==
    /\ HandledForward
    /\ CommitteeCacheFails
    /\ ~ProposerUnavailable
    /\ ev.block.slot = 2
    /\ ParentSlot = 1
    /\ head.slot = 1
    /\ ev.block.signature.key = ev.answers.proposer.validator[1]
    /\ ~ev.forward

HandledAttestationForward == ev.op = "should_forward_attestation"

\* The attested block and its state are both read from the store.
AttestedStateFound ==
    /\ store_ok
    /\ ev.attestation.beacon_block_root \in store
    /\ ev.answers.state_in_store

\* C22: should_forward_attestation returns true if and only if the signature
\* check against the head state is valid, or the attested block and its state
\* are both found in the store and the check against that state is valid; a
\* failed head-state check always leads to the slow path.
C22_AttestationForwardIff ==
    HandledAttestationForward =>
        /\ ev.forward <=>
              \/ ev.answers.head_check = "valid"
              \/ AttestedStateFound /\ ev.answers.state_check = "valid"
        /\ ev.answers.head_check # "valid" => ev.slow_path_tried
        /\ ~panicked

C22_Witness ==
    /\ HandledAttestationForward
    /\ ev.answers.head_check = "invalid"
    /\ ev.attestation.beacon_block_root = <<2>>
    /\ AttestedStateFound
    /\ ev.answers.state_check = "valid"
    /\ ev.forward

(***************************************************************************)
(* The head-change queue of ServerSentEvents.                              *)
(***************************************************************************)
IsHeadChange(entry) == entry.kind.event = "beacon_head_changed"

HeadRoot(entry) == entry.kind.current_head_beacon_block_root

\* The roots a sequence of queue items carries.
RootsOf(items) == [i \in 1..Len(items) |-> items[i].signed_beacon_block_hash]

\* The roots of the registered head changes, in call order.
RegisteredRoots ==
    LET changes == SelectSeq(registered, IsHeadChange)
    IN  [i \in 1..Len(changes) |-> HeadRoot(changes[i])]

IsAccepted(entry) == IsHeadChange(entry) /\ ~entry.logged

\* The roots of the registered head changes that were not dropped.
AcceptedRoots ==
    LET changes == SelectSeq(registered, IsAccepted)
    IN  [i \in 1..Len(changes) |-> HeadRoot(changes[i])]

QueueFull == Len(head_changed_queue.items) = SLOTS_PER_EPOCH

RegisterStep == registered' # registered

RegisteredKind == registered'[Len(registered')].kind

\* C23: a register call of a BeaconHeadChanged event makes one non-blocking
\* enqueue of the current head root: on a full queue the event is dropped,
\* the queue keeps its contents and register returns Ok(()); with room the
\* root is appended at the tail.
C23_RegisterDropsOnFullQueue ==
    [][(RegisterStep /\ RegisteredKind.event = "beacon_head_changed") =>
          /\ register_result' = RegisterOk
          /\ ~panicked'
          /\ IF QueueFull
             THEN /\ head_changed_queue' = head_changed_queue
                  /\ registered'[Len(registered')].logged
             ELSE /\ RootsOf(head_changed_queue'.items) =
                         Append(RootsOf(head_changed_queue.items),
                                RegisteredKind.current_head_beacon_block_root)
                  /\ ~registered'[Len(registered')].logged]_vars

C23_Witness ==
    /\ Len(registered) = SLOTS_PER_EPOCH + 2
    /\ IsHeadChange(registered[SLOTS_PER_EPOCH + 1])
    /\ registered[SLOTS_PER_EPOCH + 1].logged
    /\ IsAccepted(registered[SLOTS_PER_EPOCH + 2])
    /\ Len(delivered) = 1
    /\ QueueFull
    /\ register_result = RegisterOk

AllHeadChanges(n) ==
    /\ Len(registered) >= n
    /\ \A i \in 1..n : IsHeadChange(registered[i])

FirstRegisteredRoots(n) == [i \in 1..n |-> HeadRoot(registered[i])]

LoggedAmong(n) == {i \in 1..n : registered[i].logged}

\* C24: the queue never holds more than SLOTS_PER_EPOCH undelivered roots;
\* of SLOTS_PER_EPOCH + 1 head changes registered while the receiver takes
\* nothing, the first SLOTS_PER_EPOCH are the roots the receiver is later
\* given and exactly one, the last, is dropped.
C24_QueueHoldsAtMostAnEpoch ==
    /\ Len(head_changed_queue.items) <= SLOTS_PER_EPOCH
    /\ (AllHeadChanges(SLOTS_PER_EPOCH + 1) /\ delivered = <<>>) =>
          /\ SubSeq(RootsOf(head_changed_queue.items), 1, SLOTS_PER_EPOCH)
                = FirstRegisteredRoots(SLOTS_PER_EPOCH)
          /\ LoggedAmong(SLOTS_PER_EPOCH + 1) = {SLOTS_PER_EPOCH + 1}
    /\ (AllHeadChanges(SLOTS_PER_EPOCH + 1) /\ registered[SLOTS_PER_EPOCH + 1].logged) =>
          /\ Len(delivered) + Len(head_changed_queue.items) >= SLOTS_PER_EPOCH
          /\ SubSeq(RootsOf(delivered \o head_changed_queue.items), 1, SLOTS_PER_EPOCH)
                = FirstRegisteredRoots(SLOTS_PER_EPOCH)
          /\ LoggedAmong(SLOTS_PER_EPOCH + 1) = {SLOTS_PER_EPOCH + 1}

C24_Witness ==
    /\ Len(registered) = SLOTS_PER_EPOCH + 1
    /\ AllHeadChanges(SLOTS_PER_EPOCH + 1)
    /\ LoggedAmong(SLOTS_PER_EPOCH + 1) = {SLOTS_PER_EPOCH + 1}
    /\ RootsOf(delivered) = FirstRegisteredRoots(SLOTS_PER_EPOCH)
    /\ head_changed_queue.items = <<>>

RECURSIVE IsSubsequence(_, _)
IsSubsequence(a, b) ==
    IF a = <<>> THEN TRUE
    ELSE IF b = <<>> THEN FALSE
    ELSE IF Head(a) = Head(b) THEN IsSubsequence(Tail(a), Tail(b))
    ELSE IsSubsequence(a, Tail(b))

\* C25: the receiver is given head roots in the order of their register
\* calls: the delivered roots followed by the undelivered ones are exactly
\* the registered head roots that were not dropped, in call order, so the
\* delivered sequence is a subsequence of the registered head roots.
C25_DeliveredInRegisterOrder ==
    /\ RootsOf(delivered \o head_changed_queue.items) = AcceptedRoots
    /\ IsSubsequence(RootsOf(delivered), RegisteredRoots)

C25_Witness ==
    /\ Len(registered) = SLOTS_PER_EPOCH + 2
    /\ \A i \in 1..Len(registered) : IsHeadChange(registered[i])
    /\ LoggedAmong(SLOTS_PER_EPOCH + 2) = {SLOTS_PER_EPOCH + 1}
    /\ Len(delivered) = SLOTS_PER_EPOCH + 1
    /\ RootsOf(delivered)[1] # RootsOf(delivered)[2]
    /\ RootsOf(delivered)[SLOTS_PER_EPOCH + 1] # HeadRoot(registered[SLOTS_PER_EPOCH + 1])

(***************************************************************************)
(* Batches of the LevelDB store.                                           *)
(***************************************************************************)
BlockKey(hash) == get_key_for_col("BeaconBlock", hash)

StateKey(hash) == get_key_for_col("BeaconState", hash)

SummaryKey(hash) == get_key_for_col("BeaconStateSummary", hash)

EpochAligned(slot) == slot % SLOTS_PER_EPOCH = 0

\* What get and exists show when an operation's effect is in the store.
Visible(store_op) ==
    IF store_op.op = "PutBlock"
    THEN /\ key_exists(db, "BeaconBlock", store_op.hash)
         /\ get_bytes(db, "BeaconBlock", store_op.hash) = Some(as_ssz_bytes(store_op.block))
    ELSE IF store_op.op = "PutState"
    THEN /\ key_exists(db, "BeaconState", store_op.hash)
         /\ get_bytes(db, "BeaconState", store_op.hash)
               = Some(StorageContainer_as_ssz_bytes(store_op.state))
    ELSE IF store_op.op = "DeleteBlock"
    THEN /\ ~key_exists(db, "BeaconBlock", store_op.hash)
         /\ get_bytes(db, "BeaconBlock", store_op.hash) = None
    ELSE /\ ~key_exists(db, "BeaconStateSummary", store_op.hash)
         /\ EpochAligned(store_op.slot) => ~key_exists(db, "BeaconState", store_op.hash)

\* The entries an operation writes or removes.
Touched(store_op) ==
    IF store_op.op \in {"PutBlock", "DeleteBlock"} THEN {BlockKey(store_op.hash)}
    ELSE IF store_op.op = "PutState" THEN {StateKey(store_op.hash)}
    ELSE {SummaryKey(store_op.hash)}
         \cup (IF EpochAligned(store_op.slot) THEN {StateKey(store_op.hash)} ELSE {})

\* No later operation of the batch touches an entry of operation i.
NotOverridden(i) ==
    \A j \in (i + 1)..Len(batch) : Touched(batch[j]) \cap Touched(batch[i]) = {}

TouchedByBatch == UNION {Touched(batch[i]) : i \in 1..Len(batch)}

BatchSubmitted == batch # <<>>

NothingApplied == db = db_before

\* The statement as made: after Ok every operation of the batch is visible.
C26_EveryOpVisible ==
    BatchSubmitted =>
        IF db_result.ok
        THEN \A i \in 1..Len(batch) : Visible(batch[i])
        ELSE NothingApplied

\* C26: a batch submitted through do_atomically is applied whole or not at
\* all.  After Ok every operation that no later operation of the same batch
\* overrides is visible to get and exists and the entries the batch does not
\* touch are unchanged; after Err the store is as it was before the call; no
\* state of the store has only a part of a batch applied.
C26_AllOrNothing ==
    BatchSubmitted =>
        /\ db_result.ok =>
              /\ \A i \in 1..Len(batch) : NotOverridden(i) => Visible(batch[i])
              /\ \A column_key \in DbKeys \ TouchedByBatch :
                    db[column_key] = db_before[column_key]
        /\ ~db_result.ok => NothingApplied

C26_Witness ==
    /\ batch = <<PutBlock(Root(1), BeaconBlock(0)), DeleteBlock(Root(1))>>
    /\ db_result.ok
    /\ db_before[BlockKey(Root(1))] = None
    /\ db_before[BlockKey(Root(2))] # None
    /\ ~key_exists(db, "BeaconBlock", Root(1))
    /\ key_exists(db, "BeaconBlock", Root(2))

IsDeleteState == Len(batch) = 1 /\ batch[1].op = "DeleteState" /\ db_result.ok

\* C27: a DeleteState(hash, slot) applied by do_atomically removes the state
\* summary of hash, removes the full state of hash exactly when slot is a
\* multiple of SLOTS_PER_EPOCH, and leaves every other entry, the block
\* entries among them, unchanged.
C27_DeleteStateByAlignment ==
    IsDeleteState =>
        LET hash == batch[1].hash
        IN  /\ db[SummaryKey(hash)] = None
            /\ db[StateKey(hash)] =
                  IF EpochAligned(batch[1].slot) THEN None ELSE db_before[StateKey(hash)]
            /\ \A column_key \in DbKeys \ {SummaryKey(hash), StateKey(hash)} :
                  db[column_key] = db_before[column_key]

C27_Witness ==
    /\ IsDeleteState
    /\ batch[1] = DeleteState(Root(1), 1)
    /\ db_before[SummaryKey(Root(1))] # None
    /\ db_before[BlockKey(Root(1))] # None
    /\ db[StateKey(Root(1))] # None
    /\ db[SummaryKey(Root(1))] = None
    /\ db[BlockKey(Root(1))] # None

(***************************************************************************)
(* Sends on a closed channel.                                              *)
(***************************************************************************)
NetAttempts == SelectSeq(sent_order, LAMBDA a : a \in {"net", RpcWarning, DisconnectWarning})

SyncAttempts == SelectSeq(sent_order, LAMBDA a : a \in {"sync", SyncWarning})

Warnings == SelectSeq(sent_order, LAMBDA a : a \notin {"net", "sync"})

\* C28: when the channel to the sync manager or to the network service is
\* closed, a send logs a warning and returns: the handler does not panic,
\* nothing reaches the closed channel, and every send the handler would make
\* is still attempted, the StreamTermination after failed chunk sends, the
\* Goodbye and the Disconnect after a failed Status response, the
\* UnknownBlock of a gossiped block.
C28_SendFailuresAbsorbed ==
    /\ ~panicked
    /\ ~net_open => net_send = <<>> /\ Len(Warnings) >= Len(NetAttempts)
    /\ ~sync_open => sync_send = <<>> /\ Len(Warnings) >= Len(SyncAttempts)
    /\ (net_open /\ sync_open) => Warnings = <<>>
    /\ Len(sent_order) = Len(NetAttempts) + Len(SyncAttempts)
    /\ ev.op = "on_blocks_by_root_request" =>
          /\ Len(NetAttempts) = Len(FoundRoots) + 1
          /\ SyncAttempts = <<>>
    /\ (ev.op = "on_status_request" /\ ForkDiffers) =>
          /\ Len(NetAttempts) = 3
          /\ ~net_open => NetAttempts = <<RpcWarning, RpcWarning, DisconnectWarning>>
          /\ SyncAttempts = <<>>
    /\ (ev.op = "on_block_gossip"
            /\ ev.processed = [ok |-> TRUE, outcome |-> "ParentUnknown"]) =>
          /\ Len(SyncAttempts) = 1
          /\ NetAttempts = <<>>

C28_Witness ==
    /\ ev.op = "on_blocks_by_root_request"
    /\ ~net_open
    /\ Len(FoundRoots) = 2
    /\ sent_order = <<RpcWarning, RpcWarning, RpcWarning>>
    /\ net_send = <<>>

(***************************************************************************)
(* The hasher once its root is set, and the range of next_leaf.            *)
(***************************************************************************)
LeafOffered == leaves' # leaves

\* C29: once root is Some(r), every later process_leaf call is rejected with
\* an error or leaves root and half_nodes as they were, so finish() still
\* returns r.
C29_TerminalOnceRootSet ==
    [][(stream.root # None /\ LeafOffered) =>
          \/ ~res'.ok
          \/ /\ stream'.root = stream.root
             /\ stream'.half_nodes = stream.half_nodes
             /\ finish(stream') = stream.root]_vars

\* C30: in every state reached by process_leaf calls and by the steps of
\* finish, next_leaf <= 2^depth.
C30_NextLeafWithinTree == stream.next_leaf <= Pow2(stream.depth)

(***************************************************************************)
(* The stack of half-nodes and the loop of finish.                         *)
(***************************************************************************)
StackIds == [i \in 1..Len(stream.half_nodes) |-> stream.half_nodes[i].id]

\* C31: the half_nodes stack is strictly ascending by node id from bottom to
\* top and holds at most one half-node per tree level, in every state reached
\* by process_leaf calls and by the steps of finish.
C31_StackAscendingOnePerLevel ==
    \A i, j \in 1..Len(StackIds) :
        i < j => /\ StackIds[i] < StackIds[j]
                 /\ get_depth(StackIds[i]) # get_depth(StackIds[j])

C31_Witness ==
    /\ stream.depth = 3
    /\ StackIds = <<1, 3>>
    /\ Len(leaves) = 3
    /\ mpc = "open"

\* C32: the half_nodes stack never holds more than depth half-nodes.
C32_StackAtMostDepth == Len(stream.half_nodes) <= stream.depth

C32_Witness ==
    /\ stream.depth = 2
    /\ Len(stream.half_nodes) = 2
    /\ Len(leaves) = 5

RECURSIVE FinishIterations(_)
\* The iterations finish()'s loop makes from a stream, the one that breaks
\* included; a panic ends the count.
FinishIterations(s) ==
    LET r == finish_iter(s)
    IN  IF r.panic \/ r.ret # None THEN 1 ELSE 1 + FinishIterations(r.s)

TopLevel(s) == IF s.half_nodes = <<>> THEN -1 ELSE get_depth(Last(s.half_nodes).id)

\* The zero-hash level an iteration of the loop asks for, if it asks.
LevelAsked(s) ==
    IF s.root # None THEN 0
    ELSE IF s.half_nodes # <<>> THEN zero_hash_level(s, Last(s.half_nodes).id * 2 + 1)
    ELSE IF s.next_leaf = 1 THEN 0
    ELSE zero_hash_level(s, s.next_leaf)

\* C34: finish() terminates from every state process_leaf calls reach: its
\* loop makes at most depth + 1 iterations, asks only for zero-hash levels in
\* [0, depth), every iteration that does not break sets the root, moves the
\* top half-node closer to the root or pushes the first half-node, and a root
\* is returned.
C34_FinishTerminates ==
    /\ mpc # "panic"
    /\ mpc = "open" =>
          /\ FinishIterations(stream) <= stream.depth + 1
          /\ finish(stream) # None
    /\ mpc \in {"open", "finishing"} =>
          /\ LevelAsked(stream) >= 0
          /\ LevelAsked(stream) < stream.depth
          /\ LET next == finish_iter(stream).s
             IN  \/ finish_iter(stream).ret # None
                 \/ next.root # None
                 \/ /\ stream.half_nodes # <<>>
                    /\ TopLevel(next) < TopLevel(stream)
                 \/ /\ stream.half_nodes = <<>>
                    /\ Len(next.half_nodes) = 1
    /\ mpc = "done" => out # None

C34_Witness ==
    /\ mpc = "done"
    /\ stream.depth = 3
    /\ leaves = <<>>
    /\ out = <<get_zero_hash(2)>>

(***************************************************************************)
(* Calls that run alongside the chain.                                     *)
(***************************************************************************)
StatusMessageReturned == ev.op = "status_message" /\ ev.pc = "done"

\* C35: the StatusMessage that status_message returns is the snapshot of one
\* head: its head_root and the fields taken from the head state (head_slot,
\* finalized checkpoint, fork_version) are those of one and the same head,
\* whatever the chain does during the call.
C35_StatusOfOneHead ==
    StatusMessageReturned =>
        \E h \in {ev.state_head, ev.root_head} : ev.message = status_message(h, h)

StatusDone == ev.op = "process_status" /\ ev.pc = "done"

\* What the peer and the sync manager see of the rule that fired.
Outcome(rule) ==
    IF rule \in {"network_id", "clock", "finalized_chain"} THEN "disconnect"
    ELSE IF rule = "NaivePeer" THEN "none"
    ELSE "AddPeer"

StatusOutcomeOfStartingHead ==
    StatusDone =>
        LET decided == Outcome(ev.at_start.rule)
        IN  /\ Outcome(ev.rule) = decided
            /\ decided = "disconnect" =>
                   /\ Len(Goodbyes) = 1 /\ Len(Disconnects) = 1
                   /\ Len(net_send) = 2 /\ sync_send = <<>>
            /\ decided = "none" => net_send = <<>> /\ sync_send = <<>>
            /\ decided = "AddPeer" =>
                   net_send = <<>> /\ sync_send = <<AddPeer(ev.peer, ev.remote)>>

\* A peer whose head block was imported during the call, after the local
\* snapshot was taken whole from one head: the store knows the block, the head
\* of the snapshot does not.
StaleSnapshot ==
    /\ StatusDone
    /\ ev.local[1] = ev.at_start.local
    /\ ev.rule = "known_chain"
    /\ \A a \in ev.atomic : a.local = ev.local[1] => a.rule = "UsefulPeer"

ForwardDecided == ev.op = "should_forward_block" /\ ev.pc = "done" /\ ev.found # None

\* C37: the state should_forward_block checks the signature with is, before
\* any fast-forward, a state whose root is the parent block's state_root, also
\* when the head changes between the comparison and the taking of the state.
C37_StateOfParent ==
    ForwardDecided =>
        StateRoot(ev.found[1].state.slot) = ev.found[1].parent_block.state_root

(***************************************************************************)
(* Several producers registering events at once.                           *)
(***************************************************************************)
InRegister(p) == producer[p].pc # "idle"

HoldsLock(p) == sender_lock = <<p>>

\* The queue items of the head changes whose try_send succeeded, in the order
\* of the try_sends.
AcceptedChanges == SelectSeq(registered, IsAccepted)

EnqueuedOnce ==
    LET through == delivered \o head_changed_queue.items
    IN  /\ Len(through) = Len(AcceptedChanges)
        /\ \A i \in 1..Len(through) :
               through[i] = SignedBeaconBlockHash(HeadRoot(AcceptedChanges[i]))

\* C38: with several producers in register at once, the mutex is held by one
\* producer at a time and only from its lock() to the end of its single
\* try_send; the queue never holds more than its bound; the accepted roots are
\* in the queue or delivered exactly once each, in the order of their
\* try_sends; and every register call returns, whether or not the queue has
\* room or a receiver ever comes.
C38_ConcurrentRegister ==
    /\ [](\A p \in Producers :
            /\ HoldsLock(p) <=> producer[p].pc \in {"locked", "sent"}
            /\ producer[p].pc \in {"locked", "sent"} => takes_lock(producer[p].kind))
    /\ [](Len(head_changed_queue.items) <= SLOTS_PER_EPOCH)
    /\ []EnqueuedOnce
    /\ \A p \in Producers : InRegister(p) ~> ~InRegister(p)

\* One producer holds the mutex after a try_send the full queue refused while
\* the other waits in lock() with a head change of its own.
C38_Witness ==
    /\ HoldsLock("t1") /\ producer["t1"].pc = "sent"
    /\ producer["t2"].pc = "called" /\ takes_lock(producer["t2"].kind)
    /\ QueueFull
    /\ registered[Len(registered)].logged

OtherKindReturns(p) ==
    /\ producer[p].pc = "called"
    /\ producer[p].kind \in OtherEvents
    /\ producer'[p].pc = "idle"

\* C39: a register call with any event other than BeaconHeadChanged returns
\* Ok(()) with the queue as it was and without taking or waiting for the sender
\* lock; and whenever the queue grows, the root that joins it is the
\* current_head_beacon_block_root of a BeaconHeadChanged event being registered.
C39_OtherKindsDropped ==
    [][/\ \A p \in Producers :
            /\ OtherKindReturns(p) =>
                   /\ register_result' = RegisterOk
                   /\ head_changed_queue' = head_changed_queue
                   /\ sender_lock' = sender_lock
            /\ HoldsLock(p)' => producer'[p].kind \in HeadChanges
       /\ Len(head_changed_queue'.items) > Len(head_changed_queue.items) =>
            \E p \in Producers :
                /\ producer[p].kind \in HeadChanges
                /\ head_changed_queue'.items =
                       Append(head_changed_queue.items,
                              SignedBeaconBlockHash(
                                  producer[p].kind.current_head_beacon_block_root))
      ]_vars

\* A finalization event was registered while another producer held the lock,
\* and the queue holds the one head change registered so far.
C39_Witness ==
    /\ HoldsLock("t1")
    /\ Len(registered) = 2
    /\ registered[1].kind \in HeadChanges
    /\ registered[2].kind.event = "beacon_finalization"
    /\ Len(head_changed_queue.items) = 1
    /\ producer["t2"].pc = "idle"

(***************************************************************************)
(* BlocksByRange over the whole width of its slots.                        *)
(***************************************************************************)
RangeTerminations ==
    SelectSeq(net_send, LAMBDA m : m = Termination("BlocksByRange"))

\* C40: for every start_slot and count of the slot width, count = 0 and sums
\* beyond the width included, on_blocks_by_range_request completes without
\* failure, every block it emits has a slot >= start_slot, and it sends exactly
\* one StreamTermination(BlocksByRange).
C40_RangeTotal ==
    HandledRange =>
        /\ ~panicked
        /\ Len(RangeTerminations) = 1
        /\ \A i \in 1..Len(net_send) :
               net_send[i] # Termination("BlocksByRange") =>
                   /\ net_send[i] = Chunk("BlocksByRange", ChunkSlot(net_send[i]))
                   /\ ev.start_slot <= ChunkSlot(net_send[i])
====
